
---- MODULE Spec2Model ----
(***************************************************************************)
(* Plan execution in rewoo-agent: the Plan / PlanStep / ExecutionContext    *)
(* models (src/src/models/plan.py), the tool registry                       *)
(* (src/src/rewoo_agent/tools/base.py) and the two executors of            *)
(* ExecutorService (src/src/rewoo_agent/services/executor.py).             *)
(*                                                                         *)
(* One behaviour runs execute_plan on a plan and then, on a fresh copy of   *)
(* the same plan and with the same tool and completion-service outcomes,    *)
(* execute_plan_streaming.  Every action runs the code from one suspension  *)
(* point (an await or a yield) or block boundary to the next.               *)
(***************************************************************************)
EXTENDS Integers, Sequences, FiniteSets, TLC

VARIABLES
    plan,        \* the Plan being executed (steps, status, final_answer, ...)
    context,     \* the ExecutionContext of the running executor
    settings,    \* settings.rewoo (max_iterations)
    executor,    \* which executor is running
    pc,          \* position of the running executor
    next_step,   \* local next_step of the loop (index into plan.steps, 0: None)
    updates,     \* updates the tool's stream has still to deliver
    events,      \* events yielded by the streaming executor so far
    outcome,     \* what each step's tool / completion-service call does
    reference,   \* the plan as execute_plan returned it
    response,    \* what the completion service answers the planner
    service,     \* the ReWOOService call: its mode, its position, cancel_task's returns
    task_result, \* the TaskResult of the execute_task / execute_task_streaming call
    store,       \* the task's entry in the Redis store of active tasks
    tasks,       \* concurrent execute_task calls: the locals of each coroutine
    active_tasks,\* the Redis keys of active tasks and the entries they hold
    registry,    \* a ToolRegistry's _tools: the tool registered under each name
    calls        \* the calls made on an object so far: arguments and return values

\* the state of the orchestrator, which the executors never touch
orchestration == <<response, service, task_result, store>>

\* the state of the specifications of concurrent tasks, of a registry and of
\* single calls, which stays as it is while one task or one plan is executed
elsewhere == <<tasks, active_tasks, registry, calls>>

vars == <<plan, context, settings, executor, pc, next_step, updates, events,
          outcome, reference, response, service, task_result, store,
          tasks, active_tasks, registry, calls>>

----------------------------------------------------------------------------
(* Bounds of the model *)

\* most steps in a plan
MaxSteps == 2
\* largest settings.rewoo.max_iterations (MAX_ITERATIONS in the environment)
MaxIterations == 2

----------------------------------------------------------------------------
(* Python values: None and str; a str is a sequence of text pieces *)

None == [t |-> "None", s |-> <<>>]
Str(pieces) == [t |-> "str", s |-> pieces]

\* bool(v) for None and str
Truthy(v) == v.t # "None" /\ v.s # <<>>

\* str(v)
str(v) == IF v.t = "None" THEN Str(<<"None">>) ELSE v

\* an absent tool_name (None)
NoName == ""

----------------------------------------------------------------------------
(* plan.py *)

\* Plan.get_step_by_id: the index of the first step with that id, 0 for None
get_step_by_id(p, step_id) ==
    IF \E i \in DOMAIN p.steps : p.steps[i].step_id = step_id
    THEN CHOOSE i \in DOMAIN p.steps :
            /\ p.steps[i].step_id = step_id
            /\ \A j \in 1..(i - 1) : p.steps[j].step_id # step_id
    ELSE 0

\* _are_dependencies_completed with a dependency on a missing step passed over
_are_dependencies_completed_skip_missing(p, step) ==
    \A dep_id \in step.dependencies :
        LET dep_step == get_step_by_id(p, dep_id)
        IN  dep_step = 0 \/ p.steps[dep_step].status = "completed"

\* Plan._are_dependencies_completed
_are_dependencies_completed(p, step) ==
    \A dep_id \in step.dependencies :
        LET dep_step == get_step_by_id(p, dep_id)
        IN  dep_step # 0 /\ p.steps[dep_step].status = "completed"

\* get_next_step returning the last runnable step instead of the first
get_next_step_last(p) ==
    LET runnable == {i \in DOMAIN p.steps :
                        /\ p.steps[i].status = "pending"
                        /\ \A d \in p.steps[i].dependencies :
                              \E k \in DOMAIN p.steps :
                                  /\ p.steps[k].step_id = d
                                  /\ p.steps[k].status = "completed"}
    IN  IF runnable = {} THEN 0
        ELSE CHOOSE i \in runnable : \A j \in runnable : j <= i

\* Plan.get_next_step: index of the step returned, 0 for None
get_next_step(p) ==
    LET runnable == {i \in DOMAIN p.steps :
                        /\ p.steps[i].status = "pending"
                        /\ _are_dependencies_completed(p, p.steps[i])}
    IN  IF runnable = {} THEN 0
        ELSE CHOOSE i \in runnable : \A j \in runnable : i <= j

\* Plan.is_completed
is_completed(p) ==
    \A i \in DOMAIN p.steps : p.steps[i].status = "completed"

\* Plan.has_failed_steps
has_failed_steps(p) ==
    \E i \in DOMAIN p.steps : p.steps[i].status = "failed"

\* update_variable that keeps the value a name is already bound to
update_variable_keeps_first(variables, name, value) ==
    IF \E k \in DOMAIN variables : variables[k].name = name
    THEN variables
    ELSE Append(variables, [name |-> name, value |-> value])

\* ExecutionContext.update_variable on the insertion-ordered dict
update_variable(variables, name, value) ==
    IF \E k \in DOMAIN variables : variables[k].name = name
    THEN [k \in DOMAIN variables |->
            IF variables[k].name = name
            THEN [name |-> name, value |-> value] ELSE variables[k]]
    ELSE Append(variables, [name |-> name, value |-> value])

\* ExecutionContext(plan=plan, max_iterations=...)
ExecutionContext(max_iterations) ==
    [variables |-> <<>>, current_step |-> 0, iteration |-> 0,
     max_iterations |-> max_iterations]

----------------------------------------------------------------------------
(* tools/base.py *)

\* names registered in tool_registry: SearchTool and WikipediaTool (their own
\* execute_streaming) and a tool that inherits BaseTool.execute_streaming
tool_registry == {"search", "wikipedia", "custom"}

\* what a call of a registered tool can do: SearchTool and WikipediaTool
\* catch what their execute raises and return an error result
ToolOutcomes(tool_name) ==
    IF tool_name \in {"search", "wikipedia"}
    THEN {"ok", "error"} ELSE {"ok", "error", "raise"}

\* ToolResult.success_result / ToolResult.error_result
success_result(result) == [success |-> TRUE, result |-> result, error |-> None]
error_result(error) == [success |-> FALSE, result |-> None, error |-> Str(error)]

\* ToolRegistry.execute_tool
execute_tool(tool_name, o) ==
    IF tool_name \notin tool_registry
    THEN error_result(<<"Tool '", tool_name, "' not found">>)
    ELSE CASE o = "ok" -> success_result(Str(<<"observation">>))
           [] o = "error" -> error_result(<<"Invalid input">>)
           [] OTHER -> error_result(<<"Tool execution failed: ", "boom">>)

\* one update of a tool's stream
Update(type, data) == [type |-> type, data |-> data]

\* BaseTool.execute_streaming, the default: the result of execute, or an
\* "error" update when execute raises
BaseTool_execute_streaming(o) ==
    CASE o = "ok" -> <<Update("result", success_result(Str(<<"observation">>)))>>
      [] o = "error" -> <<Update("result", error_result(<<"Invalid input">>))>>
      [] OTHER -> <<Update("error", error_result(<<"boom">>))>>

\* SearchTool.execute_streaming (WikipediaTool.execute_streaming has the same
\* shape): status updates and the result, or an "error" update when the
\* search fails
SearchTool_execute_streaming(o) ==
    CASE o = "ok" -> <<Update("status", success_result(None)),
                       Update("result", success_result(Str(<<"observation">>)))>>
      [] OTHER -> <<Update("status", success_result(None)),
                    Update("error", error_result(<<"Search failed: ", "boom">>))>>

\* ToolRegistry.execute_tool_streaming
execute_tool_streaming(tool_name, o) ==
    IF tool_name \notin tool_registry
    THEN <<Update("error", error_result(<<"Tool '", tool_name, "' not found">>))>>
    ELSE IF tool_name \in {"search", "wikipedia"} THEN SearchTool_execute_streaming(o)
         ELSE BaseTool_execute_streaming(o)

----------------------------------------------------------------------------
(* executor.py: the parts both executors share *)

\* how a call ended: it returned a value or raised an exception
Returned(value) == [raised |-> FALSE, value |-> value, error |-> None]
Raised(message) == [raised |-> TRUE, value |-> None, error |-> Str(message)]

\* f"{k}: {v}" for every variable, joined with ", "
JoinVariables(variables) ==
    LET RECURSIVE join(_)
        join(k) ==
            IF k > Len(variables) THEN <<>>
            ELSE (IF k > 1 THEN <<", ">> ELSE <<>>)
                 \o <<variables[k].name, ": ">> \o str(variables[k].value).s
                 \o join(k + 1)
    IN  join(1)

\* _execute_solve_step with a fallback answer that leaves the variables out
_execute_solve_step_no_variables(variables, o) ==
    CASE o = "text" -> Str(<<"answer">>)
      [] o = "blank" -> Str(<<>>)
      [] OTHER -> Str(<<"Based on the available information: ">>)

\* ExecutorService._execute_solve_step: the completion's text, stripped, or
\* the answer built from the variables when the completion service fails
_execute_solve_step(variables, o) ==
    CASE o = "text" -> Str(<<"answer">>)
      [] o = "blank" -> Str(<<>>)
      [] OTHER -> Str(<<"Based on the available information: ">>
                      \o JoinVariables(variables))

\* _execute_tool_step without the check of result.success
_execute_tool_step_unchecked(step, o) ==
    IF step.tool_name = NoName
    THEN Raised(<<"Tool step must have a tool name">>)
    ELSE Returned(execute_tool(step.tool_name, o).result)

\* ExecutorService._execute_tool_step
_execute_tool_step(step, o) ==
    IF step.tool_name = NoName
    THEN Raised(<<"Tool step must have a tool name">>)
    ELSE LET result == execute_tool(step.tool_name, o)
         IN  IF ~result.success
             THEN Raised(<<"Tool execution failed: ">> \o result.error.s)
             ELSE Returned(result.result)

\* _execute_step with a solver that lets the completion service's failure out
_execute_step_solve_raises(step, variables, o) ==
    LET r == IF step.step_type = "tool" THEN _execute_tool_step(step, o)
             ELSE IF o = "llm_error" THEN Raised(<<"completion failed">>)
                  ELSE Returned(_execute_solve_step(variables, o))
    IN  IF r.raised
        THEN [step |-> [step EXCEPT !.status = "failed", !.error = r.error,
                                    !.completed_at = TRUE],
              variables |-> variables,
              escaped |-> FALSE]
        ELSE [step |-> [step EXCEPT !.result = r.value, !.status = "completed",
                                    !.completed_at = TRUE],
              variables |-> IF step.variable_name # NoName
                            THEN update_variable(variables, step.variable_name, r.value)
                            ELSE variables,
              escaped |-> FALSE]

\* ExecutorService._execute_step from the awaited call on: the step and the
\* variables it leaves, and whether an exception leaves it
_execute_step(step, variables, o) ==
    LET r == IF step.step_type = "tool" THEN _execute_tool_step(step, o)
             ELSE IF step.step_type = "solve"
                  THEN Returned(_execute_solve_step(variables, o))
                  ELSE Raised(<<"Unknown step type: ", step.step_type>>)
    IN  IF r.raised
        THEN [step |-> [step EXCEPT !.status = "failed", !.error = r.error,
                                    !.completed_at = TRUE],
              variables |-> variables,
              escaped |-> FALSE]
        ELSE [step |-> [step EXCEPT !.result = r.value, !.status = "completed",
                                    !.completed_at = TRUE],
              variables |-> IF step.variable_name # NoName
                            THEN update_variable(variables, step.variable_name, r.value)
                            ELSE variables,
              escaped |-> FALSE]

\* finalize_plan taking "no failed step" for "completed"
finalize_plan_no_failed(p) ==
    IF ~has_failed_steps(p)
    THEN [p EXCEPT !.status = "completed", !.completed_at = TRUE]
    ELSE [p EXCEPT !.status = "failed", !.completed_at = TRUE]

\* finalize_plan without its elif branch
finalize_plan_no_else(p) ==
    IF is_completed(p)
    THEN [p EXCEPT !.status = "completed", !.completed_at = TRUE]
    ELSE [p EXCEPT !.completed_at = TRUE]

\* finalize_plan taking the final answer whether or not the plan is completed
finalize_plan_answer_always(p) ==
    LET solve_steps == {i \in DOMAIN p.steps : p.steps[i].step_type = "solve"}
        answer == IF solve_steps = {} THEN None
                  ELSE LET r == p.steps[CHOOSE i \in solve_steps :
                                           \A j \in solve_steps : j <= i].result
                       IN  IF Truthy(r) THEN str(r) ELSE None
    IN  [p EXCEPT !.status = IF is_completed(p) THEN "completed" ELSE "failed",
                  !.final_answer = answer, !.completed_at = TRUE]

\* "Finalize plan" of execute_plan (the same lines end execute_plan_streaming)
finalize_plan(p) ==
    IF is_completed(p)
    THEN LET solve_steps == {i \in DOMAIN p.steps : p.steps[i].step_type = "solve"}
         IN  IF solve_steps # {}
             THEN LET final_step ==
                        p.steps[CHOOSE i \in solve_steps : \A j \in solve_steps : j <= i]
                  IN  [p EXCEPT !.status = "completed",
                                !.final_answer = IF Truthy(final_step.result)
                                                 THEN str(final_step.result)
                                                 ELSE None,
                                !.completed_at = TRUE]
             ELSE [p EXCEPT !.status = "completed", !.completed_at = TRUE]
    ELSE IF p.status # "failed"
         THEN [p EXCEPT !.status = "failed", !.completed_at = TRUE]
         ELSE [p EXCEPT !.completed_at = TRUE]

\* the except clause of execute_plan / execute_plan_streaming
plan_failed(p) == [p EXCEPT !.status = "failed", !.completed_at = TRUE]

\* what the call made for a step can do
Outcomes(step) ==
    IF step.step_type = "solve" THEN {"text", "blank", "llm_error"}
    ELSE IF step.tool_name \in tool_registry THEN ToolOutcomes(step.tool_name)
         ELSE {"none"}

\* the call made for step i does o, the same in both executors
Does(i, o) ==
    /\ o \in Outcomes(plan.steps[i])
    /\ outcome[i] \in {"unset", o}
    /\ outcome' = [outcome EXCEPT ![i] = o]

Event(type, step) == [type |-> type, step |-> step]

----------------------------------------------------------------------------
(* ExecutorService.execute_plan *)

\* lines 33-43: the plan is RUNNING and has a fresh context
execute_plan_start ==
    /\ executor = "execute_plan" /\ pc = "created"
    /\ plan' = [plan EXCEPT !.status = "running", !.started_at = TRUE]
    /\ context' = ExecutionContext(settings.max_iterations)
    /\ pc' = "loop"
    /\ UNCHANGED <<settings, executor, next_step, updates, events, outcome, reference>>
    /\ UNCHANGED orchestration
    /\ UNCHANGED elsewhere

\* execute_plan_loop with <= for < in the loop condition
execute_plan_loop_off_by_one ==
    /\ executor = "execute_plan" /\ pc = "loop"
    /\ IF context.iteration <= context.max_iterations
       THEN /\ context' = [context EXCEPT !.iteration = @ + 1]
            /\ next_step' = get_next_step(plan)
            /\ pc' = IF next_step' = 0 THEN "finalize" ELSE "step"
       ELSE /\ pc' = "finalize"
            /\ UNCHANGED <<context, next_step>>
    /\ UNCHANGED <<plan, settings, executor, updates, events, outcome, reference>>
    /\ UNCHANGED orchestration
    /\ UNCHANGED elsewhere

\* lines 46-52: the loop condition, the iteration count and the selection
execute_plan_loop ==
    /\ executor = "execute_plan" /\ pc = "loop"
    /\ IF context.iteration < context.max_iterations
       THEN /\ context' = [context EXCEPT !.iteration = @ + 1]
            /\ next_step' = get_next_step(plan)
            /\ pc' = IF next_step' = 0 THEN "finalize" ELSE "step"
       ELSE /\ pc' = "finalize"
            /\ UNCHANGED <<context, next_step>>
    /\ UNCHANGED <<plan, settings, executor, updates, events, outcome, reference>>
    /\ UNCHANGED orchestration
    /\ UNCHANGED elsewhere

\* _execute_step_begin that leaves the step's status alone
_execute_step_begin_no_running ==
    /\ executor = "execute_plan" /\ pc = "step"
    /\ plan' = [plan EXCEPT !.steps[next_step].started_at = TRUE]
    /\ context' = [context EXCEPT !.current_step = next_step]
    /\ pc' = "await"
    /\ UNCHANGED <<settings, executor, next_step, updates, events, outcome, reference>>
    /\ UNCHANGED orchestration
    /\ UNCHANGED elsewhere

\* _execute_step_begin that leaves the context's current_step alone
_execute_step_begin_no_current_step ==
    /\ executor = "execute_plan" /\ pc = "step"
    /\ plan' = [plan EXCEPT !.steps[next_step].status = "running",
                            !.steps[next_step].started_at = TRUE]
    /\ pc' = "await"
    /\ UNCHANGED <<context, settings, executor, next_step, updates, events, outcome,
                   reference>>
    /\ UNCHANGED orchestration
    /\ UNCHANGED elsewhere

\* _execute_step up to its await: the step is RUNNING
_execute_step_begin ==
    /\ executor = "execute_plan" /\ pc = "step"
    /\ plan' = [plan EXCEPT !.steps[next_step].status = "running",
                            !.steps[next_step].started_at = TRUE]
    /\ context' = [context EXCEPT !.current_step = next_step]
    /\ pc' = "await"
    /\ UNCHANGED <<settings, executor, next_step, updates, events, outcome, reference>>
    /\ UNCHANGED orchestration
    /\ UNCHANGED elsewhere

\* the awaited call ends and _execute_step records it; an exception that
\* leaves _execute_step reaches the except clause of execute_plan
_execute_step_end ==
    /\ executor = "execute_plan" /\ pc = "await"
    /\ \E o \in {"ok", "error", "raise", "none", "text", "blank", "llm_error"} :
        /\ Does(next_step, o)
        /\ LET r == _execute_step(plan.steps[next_step], context.variables, o)
           IN  IF r.escaped
               THEN /\ plan' = plan_failed([plan EXCEPT !.steps[next_step] = r.step])
                    /\ context' = context
                    /\ pc' = "raised"
               ELSE /\ plan' = [plan EXCEPT !.steps[next_step] = r.step]
                    /\ context' = [context EXCEPT !.variables = r.variables]
                    /\ pc' = "check"
    /\ UNCHANGED <<settings, executor, next_step, updates, events, reference>>
    /\ UNCHANGED orchestration
    /\ UNCHANGED elsewhere

\* execute_plan_check that goes on with the loop when a step has failed
execute_plan_check_ignores_failed ==
    /\ executor = "execute_plan" /\ pc = "check"
    /\ IF is_completed(plan)
       THEN pc' = "finalize" /\ plan' = plan
       ELSE pc' = "loop" /\ plan' = plan
    /\ UNCHANGED <<context, settings, executor, next_step, updates, events, outcome, reference>>
    /\ UNCHANGED orchestration
    /\ UNCHANGED elsewhere

\* lines 57-64: stop when the plan is completed or a step has failed
execute_plan_check ==
    /\ executor = "execute_plan" /\ pc = "check"
    /\ IF is_completed(plan)
       THEN pc' = "finalize" /\ plan' = plan
       ELSE IF has_failed_steps(plan)
            THEN pc' = "finalize" /\ plan' = [plan EXCEPT !.status = "failed"]
            ELSE pc' = "loop" /\ plan' = plan
    /\ UNCHANGED <<context, settings, executor, next_step, updates, events, outcome, reference>>
    /\ UNCHANGED orchestration
    /\ UNCHANGED elsewhere

\* lines 66-80: finalize and return the plan
execute_plan_finalize ==
    /\ executor = "execute_plan" /\ pc = "finalize"
    /\ plan' = finalize_plan(plan)
    /\ pc' = "done"
    /\ UNCHANGED <<context, settings, executor, next_step, updates, events, outcome, reference>>
    /\ UNCHANGED orchestration
    /\ UNCHANGED elsewhere

----------------------------------------------------------------------------
(* ExecutorService.execute_plan_streaming *)

\* lines 91-109: the plan is RUNNING, execution_started is yielded, and the
\* plan has a fresh context
execute_plan_streaming_start ==
    /\ executor = "execute_plan_streaming" /\ pc = "created"
    /\ plan' = [plan EXCEPT !.status = "running", !.started_at = TRUE]
    /\ events' = Append(events, Event("execution_started", 0))
    /\ context' = ExecutionContext(settings.max_iterations)
    /\ pc' = "loop"
    /\ UNCHANGED <<settings, executor, next_step, updates, outcome, reference>>
    /\ UNCHANGED orchestration
    /\ UNCHANGED elsewhere

\* execute_plan_streaming_loop that does not count the iteration
execute_plan_streaming_loop_uncounted ==
    /\ executor = "execute_plan_streaming" /\ pc = "loop"
    /\ IF context.iteration < context.max_iterations
       THEN /\ next_step' = get_next_step(plan)
            /\ pc' = IF next_step' = 0 THEN "finalize" ELSE "step"
            /\ UNCHANGED context
       ELSE /\ pc' = "finalize"
            /\ UNCHANGED <<context, next_step>>
    /\ UNCHANGED <<plan, settings, executor, updates, events, outcome, reference>>
    /\ UNCHANGED orchestration
    /\ UNCHANGED elsewhere

\* lines 112-118: the loop condition, the iteration count and the selection
execute_plan_streaming_loop ==
    /\ executor = "execute_plan_streaming" /\ pc = "loop"
    /\ IF context.iteration < context.max_iterations
       THEN /\ context' = [context EXCEPT !.iteration = @ + 1]
            /\ next_step' = get_next_step(plan)
            /\ pc' = IF next_step' = 0 THEN "finalize" ELSE "step"
       ELSE /\ pc' = "finalize"
            /\ UNCHANGED <<context, next_step>>
    /\ UNCHANGED <<plan, settings, executor, updates, events, outcome, reference>>
    /\ UNCHANGED orchestration
    /\ UNCHANGED elsewhere

\* _execute_step_streaming that yields no step_started
_execute_step_streaming_started_not_yielded ==
    /\ executor = "execute_plan_streaming" /\ pc = "step"
    /\ pc' = "started"
    /\ UNCHANGED <<plan, context, settings, executor, next_step, updates, events,
                   outcome, reference>>
    /\ UNCHANGED orchestration
    /\ UNCHANGED elsewhere

\* _execute_step_streaming, lines 203-210: step_started is yielded
_execute_step_streaming_started ==
    /\ executor = "execute_plan_streaming" /\ pc = "step"
    /\ events' = Append(events, Event("step_started", next_step))
    /\ pc' = "started"
    /\ UNCHANGED <<plan, context, settings, executor, next_step, updates, outcome, reference>>
    /\ UNCHANGED orchestration
    /\ UNCHANGED elsewhere

\* the except clause of _execute_step_streaming: the step is FAILED
step_failed(step, error) ==
    [step EXCEPT !.status = "failed", !.error = error, !.completed_at = TRUE]

\* _execute_step_streaming, lines 213-227: the step is RUNNING; a TOOL step
\* goes on to open the tool's stream, a SOLVE step awaits the solver
_execute_step_streaming_run ==
    /\ executor = "execute_plan_streaming" /\ pc = "started"
    /\ plan' = [plan EXCEPT !.steps[next_step].status = "running",
                            !.steps[next_step].started_at = TRUE]
    /\ context' = [context EXCEPT !.current_step = next_step]
    /\ pc' = IF plan.steps[next_step].step_type = "tool" THEN "open" ELSE "await"
    /\ UNCHANGED <<settings, executor, next_step, updates, events, outcome, reference>>
    /\ UNCHANGED orchestration
    /\ UNCHANGED elsewhere

\* _execute_tool_step_streaming, lines 291-298: a step without a tool name
\* raises, which ends the step in the except clause of
\* _execute_step_streaming; otherwise the tool's stream is opened
_execute_tool_step_streaming_open ==
    /\ executor = "execute_plan_streaming" /\ pc = "open"
    /\ IF plan.steps[next_step].tool_name = NoName
       THEN /\ plan' = [plan EXCEPT !.steps[next_step] =
                          step_failed(@, Str(<<"Tool step must have a tool name">>))]
            /\ events' = Append(events, Event("step_failed", next_step))
            /\ pc' = "check"
            /\ UNCHANGED <<updates, outcome>>
       ELSE /\ \E o \in {"ok", "error", "raise", "none"} :
                 /\ Does(next_step, o)
                 /\ updates' = execute_tool_streaming(plan.steps[next_step].tool_name, o)
            /\ pc' = "stream"
            /\ UNCHANGED <<plan, events>>
    /\ UNCHANGED <<context, settings, executor, next_step, reference>>
    /\ UNCHANGED orchestration
    /\ UNCHANGED elsewhere

\* _execute_tool_step_streaming, lines 298-305, for one update of the tool's
\* stream: the result the step holds afterwards, or the exception raised
_execute_tool_step_streaming(step, update) ==
    IF update.type = "result"
    THEN IF update.data.success
         THEN Returned(update.data.result)
         ELSE Raised(<<"Tool execution failed: ">> \o update.data.error.s)
    ELSE Returned(step.result)

\* one update of the tool's stream is taken and forwarded as step_progress;
\* an exception ends the step in the except clause of _execute_step_streaming
_execute_step_streaming_update ==
    /\ executor = "execute_plan_streaming" /\ pc = "stream" /\ updates # <<>>
    /\ LET r == _execute_tool_step_streaming(plan.steps[next_step], Head(updates))
       IN  IF r.raised
           THEN /\ plan' = [plan EXCEPT !.steps[next_step] = step_failed(@, r.error)]
                /\ events' = Append(events, Event("step_failed", next_step))
                /\ updates' = <<>>
                /\ pc' = "check"
           ELSE /\ plan' = [plan EXCEPT !.steps[next_step].result = r.value]
                /\ events' = Append(events, Event("step_progress", next_step))
                /\ updates' = Tail(updates)
                /\ pc' = "stream"
    /\ UNCHANGED <<context, settings, executor, next_step, outcome, reference>>
    /\ UNCHANGED orchestration
    /\ UNCHANGED elsewhere

\* _execute_step_streaming, lines 227-237: the solver's answer is the step's
\* result and step_progress is yielded
_execute_step_streaming_solve ==
    /\ executor = "execute_plan_streaming" /\ pc = "await"
    /\ \E o \in {"text", "blank", "llm_error"} :
        /\ Does(next_step, o)
        /\ plan' = [plan EXCEPT !.steps[next_step].result =
                        _execute_solve_step(context.variables, o)]
    /\ events' = Append(events, Event("step_progress", next_step))
    /\ pc' = "solved"
    /\ UNCHANGED <<context, settings, executor, next_step, updates, reference>>
    /\ UNCHANGED orchestration
    /\ UNCHANGED elsewhere

\* _execute_step_streaming, lines 222-223 and 241-256: the stream has ended or
\* the solver has answered; the step is COMPLETED with the result it holds
_execute_step_streaming_completed ==
    /\ executor = "execute_plan_streaming"
    /\ \/ pc = "stream" /\ updates = <<>>
       \/ pc = "solved"
    /\ LET step == plan.steps[next_step]
           result == step.result
       IN  /\ plan' = [plan EXCEPT !.steps[next_step].status = "completed",
                                   !.steps[next_step].completed_at = TRUE]
           /\ context' = [context EXCEPT !.variables =
                            IF step.variable_name # NoName
                            THEN update_variable(@, step.variable_name, result)
                            ELSE @]
    /\ events' = Append(events, Event("step_completed", next_step))
    /\ pc' = "check"
    /\ UNCHANGED <<settings, executor, next_step, updates, outcome, reference>>
    /\ UNCHANGED orchestration
    /\ UNCHANGED elsewhere

\* lines 124-131: stop when the plan is completed or a step has failed
execute_plan_streaming_check ==
    /\ executor = "execute_plan_streaming" /\ pc = "check"
    /\ IF is_completed(plan)
       THEN pc' = "finalize" /\ plan' = plan
       ELSE IF has_failed_steps(plan)
            THEN pc' = "finalize" /\ plan' = [plan EXCEPT !.status = "failed"]
            ELSE pc' = "loop" /\ plan' = plan
    /\ UNCHANGED <<context, settings, executor, next_step, updates, events, outcome, reference>>
    /\ UNCHANGED orchestration
    /\ UNCHANGED elsewhere

\* lines 133-153: finalize and yield execution_completed
execute_plan_streaming_finalize ==
    /\ executor = "execute_plan_streaming" /\ pc = "finalize"
    /\ plan' = finalize_plan(plan)
    /\ events' = Append(events, Event("execution_completed", 0))
    /\ pc' = "done"
    /\ UNCHANGED <<context, settings, executor, next_step, updates, outcome, reference>>
    /\ UNCHANGED orchestration
    /\ UNCHANGED elsewhere

----------------------------------------------------------------------------
(* The plans executed and the two runs *)

\* a PlanStep as the planner builds it: PENDING, nothing recorded
PlanStep(i, kind, step_number, dependencies) ==
    [step_id |-> i, step_type |-> kind.step_type, step_number |-> step_number,
     tool_name |-> kind.tool_name, tool_input |-> kind.tool_input,
     variable_name |-> kind.variable_name,
     dependencies |-> dependencies, status |-> "pending", result |-> None,
     error |-> None, started_at |-> FALSE, completed_at |-> FALSE]

\* a Plan as the planner builds it: CREATED
Plan(steps) ==
    [steps |-> steps, status |-> "created", final_answer |-> None,
     started_at |-> FALSE, completed_at |-> FALSE]

\* what a step is: a TOOL step of a registered or an unknown tool, or a SOLVE step
Kinds ==
    {[step_type |-> "tool", tool_name |-> n, tool_input |-> Str(<<"q">>),
      variable_name |-> "evidence"] :
        n \in {"search", "custom", "unknown"}}
    \cup {[step_type |-> "solve", tool_name |-> NoName, tool_input |-> Str(<<"q">>),
           variable_name |-> "answer"]}

\* dependency lists over the ids of n steps and the id 0 of no step
Dependencies(n) == {{}} \cup {{d} : d \in 0..n} \cup {{1, n}}

\* the declared step numbers, in the order _parse_plan_text sorts the steps
\* into: 1, 3, 3, 5, 5, ... (they need be neither contiguous nor unique)
StepNumber(i) == 2 * (i \div 2) + 1

Plans ==
    UNION {
        {Plan([i \in 1..n |-> PlanStep(i, kinds[i], StepNumber(i), deps[i])]) :
            kinds \in [1..n -> Kinds], deps \in [1..n -> Dependencies(n)]}
        : n \in 0..MaxSteps}

\* a new Plan object with the same steps, as the planner would hand it over
Fresh(p) ==
    Plan([i \in DOMAIN p.steps |->
            PlanStep(p.steps[i].step_id, p.steps[i], p.steps[i].step_number,
                     p.steps[i].dependencies)])

\* execute_plan has returned (or raised); execute_plan_streaming is called
\* on a fresh copy of the plan
call_execute_plan_streaming ==
    /\ executor = "execute_plan" /\ pc \in {"done", "raised"}
    /\ reference' = plan
    /\ plan' = Fresh(plan)
    /\ executor' = "execute_plan_streaming"
    /\ pc' = "created"
    /\ context' = ExecutionContext(0)
    /\ next_step' = 0
    /\ UNCHANGED <<settings, updates, events, outcome>>
    /\ UNCHANGED orchestration
    /\ UNCHANGED elsewhere

\* TaskResult(request_id=..., status=..., started_at=...): nothing else is set.
\* completed_at holds "None" or the time of the stamp, told by the position
\* the task was in
TaskResult(status) ==
    [status |-> status, plan_id |-> FALSE, result |-> None, error |-> None,
     completed_at |-> "None", steps_completed |-> 0, total_steps |-> 0]

\* the store holds no entry for the task
NoTask == [tracked |-> FALSE, result |-> TaskResult("none"), plan |-> None]

\* no call of ReWOOService is under way: the executors are called directly
NoService ==
    [mode |-> "none", pc |-> "idle", redis |-> "up", cancels |-> <<>>,
     final |-> [type |-> "none", status |-> "none"]]

\* the completion service has not been asked for a plan
NoResponse == [failed |-> FALSE, text |-> <<>>]

Init ==
    /\ plan \in Plans
    /\ settings \in [max_iterations : 1..MaxIterations]
    /\ context = ExecutionContext(0)
    /\ executor = "execute_plan"
    /\ pc = "created"
    /\ next_step = 0
    /\ updates = <<>>
    /\ events = <<>>
    /\ outcome = [i \in DOMAIN plan.steps |-> "unset"]
    /\ reference = plan
    /\ response = NoResponse
    /\ service = NoService
    /\ task_result = TaskResult("none")
    /\ store = NoTask
    /\ tasks = <<>>
    /\ active_tasks = <<>>
    /\ registry = <<>>
    /\ calls = <<>>

Next ==
    \/ execute_plan_start
    \/ execute_plan_loop
    \/ _execute_step_begin
    \/ _execute_step_end
    \/ execute_plan_check
    \/ execute_plan_finalize
    \/ call_execute_plan_streaming
    \/ execute_plan_streaming_start
    \/ execute_plan_streaming_loop
    \/ _execute_step_streaming_started
    \/ _execute_step_streaming_run
    \/ _execute_tool_step_streaming_open
    \/ _execute_step_streaming_update
    \/ _execute_step_streaming_solve
    \/ _execute_step_streaming_completed
    \/ execute_plan_streaming_check
    \/ execute_plan_streaming_finalize

Spec == Init /\ [][Next]_vars

\* the code runs on: the event loop resumes the executor whenever the call it
\* awaits has ended, and the consumer of the stream takes every event
FairSpec == Spec /\ WF_vars(Next)

----------------------------------------------------------------------------
(* planner.py.  A text is a sequence of pieces: words, digits and marks     *)
(* that none of the parser's string operations cuts in two                  *)

\* str.strip
strip(s) ==
    LET RECURSIVE lstrip(_)
        lstrip(t) == IF t # <<>> /\ Head(t) = " " THEN lstrip(Tail(t)) ELSE t
        RECURSIVE rstrip(_)
        rstrip(t) ==
            IF t # <<>> /\ t[Len(t)] = " "
            THEN rstrip(SubSeq(t, 1, Len(t) - 1)) ELSE t
    IN  rstrip(lstrip(s))

\* str.startswith
startswith(s, prefix) ==
    Len(s) >= Len(prefix) /\ SubSeq(s, 1, Len(prefix)) = prefix

\* str.find, counting from 1: where sep first occurs in s, 0 when nowhere
find(s, sep) ==
    LET at == {k \in 1..(Len(s) - Len(sep) + 1) :
                  SubSeq(s, k, k + Len(sep) - 1) = sep}
    IN  IF at = {} THEN 0 ELSE CHOOSE k \in at : \A j \in at : k <= j

\* str.split(sep)
split(s, sep) ==
    LET RECURSIVE parts(_)
        parts(t) ==
            LET k == find(t, sep)
            IN  IF k = 0 THEN <<t>>
                ELSE <<SubSeq(t, 1, k - 1)>>
                     \o parts(SubSeq(t, k + Len(sep), Len(t)))
    IN  parts(s)

\* str.split(sep, 1)
split_once(s, sep) ==
    LET k == find(s, sep)
    IN  IF k = 0 THEN <<s>>
        ELSE <<SubSeq(s, 1, k - 1), SubSeq(s, k + Len(sep), Len(s))>>

\* str.replace('#', '')
replace_hash(s) == SelectSeq(s, LAMBDA c : c # "#")

\* the digits a step number is written with
Digit == ("1" :> 1) @@ ("2" :> 2) @@ ("3" :> 3)

\* int(s): the number read, or the ValueError raised
int(s) ==
    LET t == strip(s)
        RECURSIVE value(_)
        value(u) ==
            IF u = <<>> THEN 0
            ELSE 10 * value(SubSeq(u, 1, Len(u) - 1)) + Digit[u[Len(u)]]
    IN  IF t # <<>> /\ \A k \in DOMAIN t : t[k] \in DOMAIN Digit
        THEN [raised |-> FALSE, value |-> value(t)]
        ELSE [raised |-> TRUE, value |-> 0]

\* the str a sequence of pieces spells
spell(s) ==
    LET RECURSIVE join(_)
        join(k) == IF k > Len(s) THEN "" ELSE s[k] \o join(k + 1)
    IN  join(1)

\* the body of the loop of _parse_plan_text for the i-th line: the step
\* appended to steps, if any
_parse_plan_line(raw_line, i) ==
    LET line == strip(raw_line)
    IN  IF ~startswith(line, <<"Plan:">>) THEN <<>>
        ELSE
        LET step_text == strip(Tail(line))
            parts == split(step_text, <<" ", "->", " ">>)
        IN  IF Len(parts) # 2 THEN <<>>
            ELSE
            LET left_part == strip(parts[1])
                variable_name == spell(replace_hash(strip(parts[2])))
                step_parts == split_once(left_part, <<".">>)
            IN  IF Len(step_parts) # 2 THEN <<>>
                ELSE
                LET step_number == int(strip(step_parts[1]))
                    rest == strip(step_parts[2])
                IN  IF step_number.raised THEN <<>>
                    ELSE IF startswith(rest, <<"TOOL", " ">>)
                    THEN LET tool_part == strip(SubSeq(rest, 3, Len(rest)))
                             tool_parts == split_once(tool_part, <<" ">>)
                             tool_input == IF Len(tool_parts) >= 2
                                           THEN tool_parts[2] ELSE <<>>
                         IN  <<PlanStep(i, [step_type |-> "tool",
                                            tool_name |-> spell(tool_parts[1]),
                                            tool_input |-> Str(tool_input),
                                            variable_name |-> variable_name],
                                        step_number.value, {})>>
                    ELSE IF startswith(rest, <<"SOLVE", " ">>)
                    THEN <<PlanStep(i, [step_type |-> "solve",
                                        tool_name |-> NoName,
                                        tool_input |->
                                            Str(strip(SubSeq(rest, 3, Len(rest)))),
                                        variable_name |-> variable_name],
                                    step_number.value, {})>>
                    ELSE <<>>

\* a sort by step number that puts a step before the steps of its number
sort_by_step_number_unstable(steps) ==
    LET RECURSIVE insert(_, _)
        insert(sorted, x) ==
            IF sorted = <<>> THEN <<x>>
            ELSE IF sorted[Len(sorted)].step_number < x.step_number
                 THEN Append(sorted, x)
                 ELSE Append(insert(SubSeq(sorted, 1, Len(sorted) - 1), x),
                             sorted[Len(sorted)])
        RECURSIVE sort(_)
        sort(k) == IF k = 0 THEN <<>> ELSE insert(sort(k - 1), steps[k])
    IN  sort(Len(steps))

\* steps.sort(key=lambda x: x.step_number): a stable sort
sort_by_step_number(steps) ==
    LET RECURSIVE insert(_, _)
        insert(sorted, x) ==
            IF sorted = <<>> THEN <<x>>
            ELSE IF sorted[Len(sorted)].step_number <= x.step_number
                 THEN Append(sorted, x)
                 ELSE Append(insert(SubSeq(sorted, 1, Len(sorted) - 1), x),
                             sorted[Len(sorted)])
        RECURSIVE sort(_)
        sort(k) == IF k = 0 THEN <<>> ELSE insert(sort(k - 1), steps[k])
    IN  sort(Len(steps))

\* PlannerService._parse_plan_text on the lines of the text
_parse_plan_text(plan_text) ==
    LET RECURSIVE parse(_)
        parse(k) ==
            IF k > Len(plan_text) THEN <<>>
            ELSE _parse_plan_line(plan_text[k], k) \o parse(k + 1)
    IN  sort_by_step_number(parse(1))

\* the task_description of the request
task_description == <<"q">>

\* PlannerService._create_fallback_plan; the tool_input of step 3 is a plain
\* string literal, braces included
_create_fallback_plan ==
    <<PlanStep(1, [step_type |-> "tool", tool_name |-> "search",
                   tool_input |-> Str(task_description),
                   variable_name |-> "search_result"], 1, {}),
      PlanStep(2, [step_type |-> "tool", tool_name |-> "wikipedia",
                   tool_input |-> Str(task_description),
                   variable_name |-> "wiki_info"], 2, {}),
      PlanStep(3, [step_type |-> "solve", tool_name |-> NoName,
                   tool_input |->
                       Str(<<"Use the search results ",
                             "#", "{", "search_result", "}", "#",
                             " and Wikipedia information ",
                             "#", "{", "wiki_info", "}", "#",
                             " to provide a comprehensive answer to: ",
                             "{", "task_description", "}">>),
                   variable_name |-> "answer"], 3, {})>>

\* PlannerService._generate_plan_steps: the fallback plan only when the
\* completion service (or the parsing) raises
_generate_plan_steps(r) ==
    IF r.failed THEN _create_fallback_plan ELSE _parse_plan_text(r.text)

\* PlannerService.create_plan (create_plan_streaming builds the same Plan and
\* ReWOOService.execute_task_streaming rebuilds it from its model_dump)
create_plan(r) == Plan(_generate_plan_steps(r))

\* validate_plan without its check for a SOLVE step
validate_plan_no_solve_check(p) ==
    /\ p.steps # <<>>
    /\ \A i \in DOMAIN p.steps :
          p.steps[i].step_type = "tool" => p.steps[i].tool_name \in tool_registry

\* PlannerService.validate_plan
validate_plan(p) ==
    /\ p.steps # <<>>
    /\ \A i \in DOMAIN p.steps :
          p.steps[i].step_type = "tool" => p.steps[i].tool_name \in tool_registry
    /\ \E i \in DOMAIN p.steps : p.steps[i].step_type = "solve"

\* most lines in the completion service's response
MaxLines == 2

\* a TOOL line, a SOLVE line, a TOOL line without input that names an unknown
\* tool, a line that is no Plan: line, and a SOLVE line whose variable is ##,
\* the empty name
TaskLines ==
    {<<"Plan:", " ", "1", ".", " ", "TOOL", " ", "search", " ", "q", " ", "->", " ",
       "#", "search_result", "#">>,
     <<"Plan:", " ", "2", ".", " ", "SOLVE", " ", "q", " ", "->", " ", "#", "answer", "#">>,
     <<"Plan:", " ", "3", ".", " ", "TOOL", " ", "nosuch", " ", "->", " ", "#", "r", "#">>,
     <<"q", " ", "q">>,
     <<"Plan:", " ", "3", ".", " ", "SOLVE", " ", "q", " ", "->", " ", "#", "#">>}

\* lines the parser skips: no " -> ", two of them, no ".", a step number that
\* is no number, an unknown keyword, SOLVE without input; and a SOLVE line
\* that is indented and a SOLVE line with the step number of the TOOL line
Lines ==
    TaskLines \cup
    {<<"Plan:", " ", "1", ".", " ", "TOOL", " ", "search", " ", "q">>,
     <<"Plan:", " ", "1", ".", " ", "TOOL", " ", "search", " ", "q", " ", "->", " ", "q",
       " ", "->", " ", "#", "r", "#">>,
     <<"Plan:", " ", "1", " ", "TOOL", " ", "search", " ", "q", " ", "->", " ", "#", "r", "#">>,
     <<"Plan:", " ", "q", ".", " ", "TOOL", " ", "search", " ", "q", " ", "->", " ", "#", "r", "#">>,
     <<"Plan:", " ", "1", ".", " ", "THINK", " ", "q", " ", "->", " ", "#", "r", "#">>,
     <<"Plan:", " ", "3", ".", " ", "SOLVE", " ", "->", " ", "#", "answer", "#">>,
     <<" ", "Plan:", "1", "2", ".", "SOLVE", " ", "q", " ", "->", " ", "#", "answer", "#", " ">>,
     <<"Plan:", " ", "1", ".", " ", "SOLVE", " ", "q", " ", "->", " ", "#", "answer", "#">>}

\* what the completion service does: it fails, or it answers with a text
Responses(lines) ==
    {[failed |-> TRUE, text |-> <<>>]}
    \cup UNION {{[failed |-> FALSE, text |-> t] : t \in [1..n -> lines]} : n \in 0..MaxLines}

\* create_plan is called and returns the plan
call_create_plan ==
    /\ service.mode = "create_plan" /\ service.pc = "called"
    /\ plan' = create_plan(response)
    /\ service' = [service EXCEPT !.pc = "returned"]
    /\ UNCHANGED <<context, settings, executor, pc, next_step, updates, events,
                   outcome, reference, response, task_result, store>>
    /\ UNCHANGED elsewhere

PlannerInit ==
    /\ response \in Responses(Lines)
    /\ service = [NoService EXCEPT !.mode = "create_plan", !.pc = "called"]
    /\ plan = Plan(<<>>)
    /\ settings \in [max_iterations : {1}]
    /\ context = ExecutionContext(0)
    /\ executor = "none"
    /\ pc = "idle"
    /\ next_step = 0
    /\ updates = <<>>
    /\ events = <<>>
    /\ outcome = <<>>
    /\ reference = Plan(<<>>)
    /\ task_result = TaskResult("none")
    /\ store = NoTask
    /\ tasks = <<>>
    /\ active_tasks = <<>>
    /\ registry = <<>>
    /\ calls = <<>>

PlannerNext == call_create_plan

PlannerSpec == PlannerInit /\ [][PlannerNext]_vars

----------------------------------------------------------------------------
(* rewoo_service.py and redis_service.py: one task, run by execute_task or   *)
(* by execute_task_streaming, and cancel_task called while it is suspended   *)

\* datetime.now(), told by the position the task is in
now == service.pc

\* RedisService.store_active_task: the entry is a JSON copy of the task's
\* data, the result and the plan (None or a Plan) as they are at that moment
store_active_task(result, p) ==
    [tracked |-> TRUE, result |-> result, plan |-> p]

\* RedisService.update_task_plan: the plan is put into the stored copy
update_task_plan(entry, p) ==
    IF entry.tracked THEN store_active_task(entry.result, p) ELSE entry

\* RedisService.remove_active_task
remove_active_task(entry) == NoTask

\* the except clause of execute_task / execute_task_streaming
task_failed(result, error) ==
    [result EXCEPT !.status = "failed", !.error = Str(error), !.completed_at = now]

\* task_finalized reporting COMPLETED whatever the plan's status is
task_finalized_always_completed(result, status, final_answer, p) ==
    [result EXCEPT !.status = "completed",
                   !.result = final_answer,
                   !.completed_at = now,
                   !.steps_completed =
                       Cardinality({i \in DOMAIN p.steps : p.steps[i].status = "completed"}),
                   !.total_steps = Len(p.steps)]

\* "Finalize result" of execute_task (lines 53-58) and the handling of
\* execution_completed in execute_task_streaming (lines 136-141)
task_finalized(result, status, final_answer, p) ==
    [result EXCEPT !.status = IF status = "completed" THEN "completed" ELSE "failed",
                   !.result = final_answer,
                   !.completed_at = now,
                   !.steps_completed =
                       Cardinality({i \in DOMAIN p.steps : p.steps[i].status = "completed"}),
                   !.total_steps = Len(p.steps)]

\* execute_task, lines 30-41: the task result is created in PLANNING and
\* stored; when the store raises, the except clause ends the call
execute_task_start ==
    /\ service.mode = "execute_task" /\ service.pc = "called"
    /\ IF service.redis = "up"
       THEN /\ task_result' = TaskResult("planning")
            /\ store' = store_active_task(task_result', None)
            /\ service' = [service EXCEPT !.pc = "planning"]
       ELSE /\ task_result' = task_failed(TaskResult("planning"),
                                          <<"Error connecting to Redis">>)
            /\ store' = remove_active_task(store)
            /\ service' = [service EXCEPT !.pc = "returned"]
    /\ UNCHANGED <<plan, context, settings, executor, pc, next_step, updates,
                   events, outcome, reference, response>>
    /\ UNCHANGED elsewhere

\* execute_task, lines 44-50: the planner returns the plan, the plan is
\* stored, the task is EXECUTING and execute_plan is called
execute_task_plan ==
    /\ service.mode = "execute_task" /\ service.pc = "planning"
    /\ plan' = create_plan(response)
    /\ task_result' = [task_result EXCEPT !.plan_id = TRUE, !.status = "executing"]
    /\ store' = update_task_plan(store, plan')
    /\ outcome' = [i \in DOMAIN plan'.steps |-> "unset"]
    /\ pc' = "created"
    /\ service' = [service EXCEPT !.pc = "executing"]
    /\ UNCHANGED <<context, settings, executor, next_step, updates, events,
                   reference, response>>
    /\ UNCHANGED elsewhere

\* execute_task, lines 52-64 (lines 66-78 when execute_plan raised): the
\* result is finalized, the entry is removed and the result is returned
execute_task_finalize ==
    /\ service.mode = "execute_task" /\ service.pc = "executing"
    /\ pc \in {"done", "raised"}
    /\ task_result' =
          IF pc = "done"
          THEN task_finalized(task_result, plan.status, plan.final_answer, plan)
          ELSE task_failed(task_result, <<"Error executing plan">>)
    /\ store' = remove_active_task(store)
    /\ service' = [service EXCEPT !.pc = "returned"]
    /\ UNCHANGED <<plan, context, settings, executor, pc, next_step, updates,
                   events, outcome, reference, response>>
    /\ UNCHANGED elsewhere

\* execute_task_streaming, lines 83-108: as execute_task, then task_started
\* and task_status are yielded; when the store raises, task_failed is yielded
execute_task_streaming_start ==
    /\ service.mode = "execute_task_streaming" /\ service.pc = "called"
    /\ IF service.redis = "up"
       THEN /\ task_result' = TaskResult("planning")
            /\ store' = store_active_task(task_result', None)
            /\ service' = [service EXCEPT !.pc = "planning"]
       ELSE /\ task_result' = task_failed(TaskResult("planning"),
                                          <<"Error connecting to Redis">>)
            /\ store' = remove_active_task(store)
            /\ service' = [service EXCEPT
                              !.pc = "returned",
                              !.final = [type |-> "task_failed", status |-> "none"]]
    /\ UNCHANGED <<plan, context, settings, executor, pc, next_step, updates,
                   events, outcome, reference, response>>
    /\ UNCHANGED elsewhere

\* execute_task_streaming, lines 110-129: the planner's plan_created update
\* gives the plan, the plan is stored, and the planning updates and
\* task_status are yielded (a plan is always created, so line 123 never raises)
execute_task_streaming_plan ==
    /\ service.mode = "execute_task_streaming" /\ service.pc = "planning"
    /\ plan' = create_plan(response)
    /\ task_result' = [task_result EXCEPT !.plan_id = TRUE]
    /\ store' = update_task_plan(store, plan')
    /\ outcome' = [i \in DOMAIN plan'.steps |-> "unset"]
    /\ service' = [service EXCEPT !.pc = "planned"]
    /\ UNCHANGED <<context, settings, executor, pc, next_step, updates, events,
                   reference, response>>
    /\ UNCHANGED elsewhere

\* execute_task_streaming, lines 131-133: the task is EXECUTING and
\* execute_plan_streaming is called
execute_task_streaming_execute ==
    /\ service.mode = "execute_task_streaming" /\ service.pc = "planned"
    /\ task_result' = [task_result EXCEPT !.status = "executing"]
    /\ pc' = "created"
    /\ service' = [service EXCEPT !.pc = "executing"]
    /\ UNCHANGED <<plan, context, settings, executor, next_step, updates, events,
                   outcome, reference, response, store>>
    /\ UNCHANGED elsewhere

\* execute_task_streaming_update that leaves the task's status alone
execute_task_streaming_update_status_kept ==
    /\ service.mode = "execute_task_streaming" /\ service.pc = "executing"
    /\ pc \in {"done", "raised"}
    /\ task_result' =
          IF pc = "done"
          THEN [task_finalized(task_result, plan.status, plan.final_answer, plan)
                    EXCEPT !.status = task_result.status]
          ELSE task_result
    /\ service' = [service EXCEPT !.pc = "forwarded"]
    /\ UNCHANGED <<plan, context, settings, executor, pc, next_step, updates,
                   events, outcome, reference, response, store>>
    /\ UNCHANGED elsewhere

\* execute_task_streaming, lines 133-146, for the executor's last update:
\* execution_completed finalizes the result, an "error" update changes
\* nothing; the update is forwarded
execute_task_streaming_update ==
    /\ service.mode = "execute_task_streaming" /\ service.pc = "executing"
    /\ pc \in {"done", "raised"}
    /\ task_result' =
          IF pc = "done"
          THEN task_finalized(task_result, plan.status, plan.final_answer, plan)
          ELSE task_result
    /\ service' = [service EXCEPT !.pc = "forwarded"]
    /\ UNCHANGED <<plan, context, settings, executor, pc, next_step, updates,
                   events, outcome, reference, response, store>>
    /\ UNCHANGED elsewhere

\* execute_task_streaming, lines 148-157: task_completed is yielded with the
\* status the task result has
execute_task_streaming_completed ==
    /\ service.mode = "execute_task_streaming" /\ service.pc = "forwarded"
    /\ service' = [service EXCEPT
                      !.pc = "completed",
                      !.final = [type |-> "task_completed", status |-> task_result.status]]
    /\ UNCHANGED <<plan, context, settings, executor, pc, next_step, updates,
                   events, outcome, reference, response, task_result, store>>
    /\ UNCHANGED elsewhere

\* execute_task_streaming, lines 159-160: the entry is removed
execute_task_streaming_cleanup ==
    /\ service.mode = "execute_task_streaming" /\ service.pc = "completed"
    /\ store' = remove_active_task(store)
    /\ service' = [service EXCEPT !.pc = "returned"]
    /\ UNCHANGED <<plan, context, settings, executor, pc, next_step, updates,
                   events, outcome, reference, response, task_result>>
    /\ UNCHANGED elsewhere

\* most calls of cancel_task
MaxCancels == 1

\* the task's coroutine is not running: it has not begun or has ended, it
\* awaits the planner, a tool or the completion service, or it has yielded an
\* event to its consumer
Suspended ==
    \/ service.pc \in {"called", "planning", "planned", "returned"}
    \/ /\ service.mode = "execute_task"
       /\ service.pc = "executing" /\ pc = "await"
    \/ /\ service.mode = "execute_task_streaming"
       /\ \/ /\ service.pc = "executing"
             /\ \/ pc \in {"started", "stream", "await", "solved", "check"}
                \/ pc = "loop" /\ context.iteration = 0
          \/ service.pc \in {"forwarded", "completed"}

\* ReWOOService.cancel_task: the stored copy of a tracked task is marked
\* CANCELLED and stored back
cancel_task ==
    /\ service.mode \in {"execute_task", "execute_task_streaming"}
    /\ Suspended /\ Len(service.cancels) < MaxCancels
    /\ IF service.redis = "up" /\ store.tracked
       THEN /\ store' = store_active_task(
                            [store.result EXCEPT !.status = "cancelled",
                                                 !.completed_at = now],
                            store.plan)
            /\ service' = [service EXCEPT !.cancels = Append(@, TRUE)]
       ELSE /\ store' = store
            /\ service' = [service EXCEPT !.cancels = Append(@, FALSE)]
    /\ UNCHANGED <<plan, context, settings, executor, pc, next_step, updates,
                   events, outcome, reference, response, task_result>>
    /\ UNCHANGED elsewhere

\* ReWOOService.get_task_status: what a call made now returns, read from the
\* stored copy of the task; found is FALSE for the None returned
get_task_status ==
    IF service.redis = "up" /\ store.tracked
    THEN [found |-> TRUE,
          status |-> store.result.status,
          plan |-> IF store.plan # None
                   THEN [total_steps |-> Len(store.plan.steps),
                         completed_steps |->
                             Cardinality({i \in DOMAIN store.plan.steps :
                                             store.plan.steps[i].status = "completed"}),
                         failed_steps |->
                             Cardinality({i \in DOMAIN store.plan.steps :
                                             store.plan.steps[i].status = "failed"})]
                   ELSE None]
    ELSE [found |-> FALSE, status |-> "none", plan |-> None]

TaskInit ==
    /\ response \in Responses(TaskLines)
    /\ settings \in [max_iterations : 1..MaxIterations]
    /\ service \in {[NoService EXCEPT !.mode = m, !.pc = "called", !.redis = r] :
                       m \in {"execute_task", "execute_task_streaming"},
                       r \in {"up", "down"}}
    /\ executor = IF service.mode = "execute_task"
                  THEN "execute_plan" ELSE "execute_plan_streaming"
    /\ plan = Plan(<<>>)
    /\ context = ExecutionContext(0)
    /\ pc = "idle"
    /\ next_step = 0
    /\ updates = <<>>
    /\ events = <<>>
    /\ outcome = <<>>
    /\ reference = Plan(<<>>)
    /\ task_result = TaskResult("none")
    /\ store = NoTask
    /\ tasks = <<>>
    /\ active_tasks = <<>>
    /\ registry = <<>>
    /\ calls = <<>>

TaskNext ==
    \/ execute_task_start
    \/ execute_task_plan
    \/ execute_task_finalize
    \/ execute_task_streaming_start
    \/ execute_task_streaming_plan
    \/ execute_task_streaming_execute
    \/ execute_task_streaming_update
    \/ execute_task_streaming_completed
    \/ execute_task_streaming_cleanup
    \/ cancel_task
    \/ execute_plan_start
    \/ execute_plan_loop
    \/ _execute_step_begin
    \/ _execute_step_end
    \/ execute_plan_check
    \/ execute_plan_finalize
    \/ execute_plan_streaming_start
    \/ execute_plan_streaming_loop
    \/ _execute_step_streaming_started
    \/ _execute_step_streaming_run
    \/ _execute_tool_step_streaming_open
    \/ _execute_step_streaming_update
    \/ _execute_step_streaming_solve
    \/ _execute_step_streaming_completed
    \/ execute_plan_streaming_check
    \/ execute_plan_streaming_finalize

TaskSpec == TaskInit /\ [][TaskNext]_vars

\* execute_task_streaming has yielded an update to its consumer and waits to
\* be resumed
Yielded ==
    /\ service.mode = "execute_task_streaming"
    /\ \/ service.pc \in {"planning", "planned", "forwarded", "completed"}
       \/ /\ service.pc = "executing"
          /\ \/ pc \in {"started", "solved", "check"}
             \/ pc = "stream" /\ events[Len(events)].type = "step_progress"
             \/ pc = "loop" /\ context.iteration = 0

\* the consumer of execute_task_streaming ceases to iterate: it breaks out of
\* its loop on task_completed, or sending an update on raised (a disconnect).
\* The generator is not resumed; when it is closed, GeneratorExit is raised
\* at the yield, which no "except Exception" clause catches
consumer_stops ==
    /\ Yielded
    /\ service' = [service EXCEPT !.pc = "closed"]
    /\ UNCHANGED <<plan, context, settings, executor, pc, next_step, updates,
                   events, outcome, reference, response, task_result, store>>
    /\ UNCHANGED elsewhere

\* a task and the consumer of its stream
StreamNext ==
    \/ TaskNext
    \/ consumer_stops

\* the event loop resumes the task whenever what it awaits has ended, and a
\* consumer that has not stopped asks for the next update
StreamSpec == TaskInit /\ [][StreamNext]_vars /\ WF_vars(TaskNext)

----------------------------------------------------------------------------
(* Concurrent execute_task calls on one ReWOOService.  Every coroutine has   *)
(* its own locals (task_result, plan, and the context and next_step of       *)
(* execute_plan); the calls share the Redis store.  A coroutine runs from    *)
(* one await to the next without interruption                                *)

\* the calls that run concurrently
Tasks == {1, 2}

\* the request ids the callers supply
RequestIds == {"a", "b"}

\* settings.redis.key_prefix
key_prefix == "rewoo:active_tasks:"

\* _get_key that gives every task the same key
_get_key_one_key(request_id) == <<key_prefix, "a">>

\* RedisService._get_key
_get_key(request_id) == <<key_prefix, request_id>>

\* what the completion service answers the planner of a concurrent call: a
\* TOOL and a SOLVE line, a SOLVE line alone, or a failure (the fallback plan)
ConcurrentResponses ==
    {[failed |-> FALSE,
      text |-> <<<<"Plan:", " ", "1", ".", " ", "TOOL", " ", "search", " ", "q", " ",
                   "->", " ", "#", "search_result", "#">>,
                 <<"Plan:", " ", "2", ".", " ", "SOLVE", " ", "q", " ", "->", " ",
                   "#", "answer", "#">>>>],
     [failed |-> FALSE,
      text |-> <<<<"Plan:", " ", "2", ".", " ", "SOLVE", " ", "q", " ", "->", " ",
                   "#", "answer", "#">>>>],
     [failed |-> TRUE, text |-> <<>>]}

\* the locals of an execute_task call that has not started
Locals(request_id, r) ==
    [request_id |-> request_id, response |-> r, pc |-> "called",
     task_result |-> TaskResult("none"), plan |-> Plan(<<>>),
     context |-> ExecutionContext(0), next_step |-> 0, outcome |-> <<>>]

\* execute_plan, lines 66-80, and execute_task, lines 52-64: the plan is
\* finalized and returned, the task result is finalized and returned
execute_plan_returns(l) ==
    LET p == finalize_plan(l.plan)
    IN  [l EXCEPT !.plan = p,
                  !.task_result = task_finalized(l.task_result, p.status, p.final_answer, p),
                  !.pc = "returned"]

\* execute_plan, lines 46-55, and _execute_step up to its await: the loop
\* condition, the iteration count, the selection, and the step is RUNNING
execute_plan_resume(l) ==
    IF l.context.iteration < l.context.max_iterations
    THEN LET n == get_next_step(l.plan)
             counted == [l EXCEPT !.context.iteration = @ + 1, !.next_step = n]
         IN  IF n = 0 THEN execute_plan_returns(counted)
             ELSE [counted EXCEPT !.plan.steps[n].status = "running",
                                  !.plan.steps[n].started_at = TRUE,
                                  !.context.current_step = n,
                                  !.pc = "await"]
    ELSE execute_plan_returns(l)

\* _execute_step from the awaited call on and execute_plan, lines 57-64: the
\* call's outcome is recorded, and the loop stops or goes on
execute_plan_step_ends(l, o) ==
    LET r == _execute_step(l.plan.steps[l.next_step], l.context.variables, o)
        recorded == [l EXCEPT !.plan.steps[l.next_step] = r.step,
                              !.context.variables = r.variables,
                              !.outcome[l.next_step] = o]
    IN  IF is_completed(recorded.plan) THEN execute_plan_returns(recorded)
        ELSE IF has_failed_steps(recorded.plan)
             THEN execute_plan_returns([recorded EXCEPT !.plan.status = "failed"])
             ELSE execute_plan_resume(recorded)

\* execute_task, lines 44-50, and execute_plan, lines 33-43: the planner
\* returns the plan, the task is EXECUTING, the plan is RUNNING with a fresh
\* context, and the loop is entered
execute_plan_called(l, max_iterations) ==
    LET p == create_plan(l.response)
    IN  execute_plan_resume(
            [l EXCEPT !.plan = [p EXCEPT !.status = "running", !.started_at = TRUE],
                      !.task_result = [@ EXCEPT !.plan_id = TRUE, !.status = "executing"],
                      !.context = ExecutionContext(max_iterations),
                      !.outcome = [i \in DOMAIN p.steps |-> "unset"]])

\* execute_task run alone from its call of the planner on, the call made for
\* step i doing outcomes[i]: the locals it returns with
execute_task_alone(l, max_iterations, outcomes) ==
    LET RECURSIVE run(_)
        run(m) == IF m.pc = "returned" THEN m
                  ELSE run(execute_plan_step_ends(m, outcomes[m.next_step]))
    IN  run(execute_plan_called(l, max_iterations))

\* the store after the coroutine of a task has run up to locals l: its entry
\* is removed when execute_task returns
removed_on_return(l, entries) ==
    IF l.pc = "returned"
    THEN [entries EXCEPT ![_get_key(l.request_id)] = remove_active_task(@)]
    ELSE entries

\* execute_task of task t, lines 30-44: the result is created in PLANNING and
\* stored, and the planner is awaited
concurrent_execute_task_start(t) ==
    /\ tasks[t].pc = "called"
    /\ tasks' = [tasks EXCEPT ![t].task_result = TaskResult("planning"),
                              ![t].pc = "planning"]
    /\ active_tasks' = [active_tasks EXCEPT ![_get_key(tasks[t].request_id)] =
                            store_active_task(TaskResult("planning"), None)]
    /\ UNCHANGED <<plan, context, settings, executor, pc, next_step, updates,
                   events, outcome, reference, registry, calls>>
    /\ UNCHANGED orchestration

\* execute_task of task t, lines 44-50: the plan is stored and executed up to
\* the first awaited call (or to the return, when no step can be started)
concurrent_execute_task_plan(t) ==
    /\ tasks[t].pc = "planning"
    /\ LET l == execute_plan_called(tasks[t], settings.max_iterations)
           key == _get_key(tasks[t].request_id)
       IN  /\ tasks' = [tasks EXCEPT ![t] = l]
           /\ active_tasks' = removed_on_return(l,
                  [active_tasks EXCEPT ![key] =
                       update_task_plan(@, create_plan(tasks[t].response))])
    /\ UNCHANGED <<plan, context, settings, executor, pc, next_step, updates,
                   events, outcome, reference, registry, calls>>
    /\ UNCHANGED orchestration

\* the call task t awaits ends: execute_plan runs on to the next awaited call
\* or to the return of execute_task
concurrent_execute_step_end(t) ==
    /\ tasks[t].pc = "await"
    /\ \E o \in Outcomes(tasks[t].plan.steps[tasks[t].next_step]) :
        LET l == execute_plan_step_ends(tasks[t], o)
        IN  /\ tasks' = [tasks EXCEPT ![t] = l]
            /\ active_tasks' = removed_on_return(l, active_tasks)
    /\ UNCHANGED <<plan, context, settings, executor, pc, next_step, updates,
                   events, outcome, reference, registry, calls>>
    /\ UNCHANGED orchestration

ConcurrentInit ==
    /\ settings \in [max_iterations : 1..MaxIterations]
    /\ tasks \in {[t \in Tasks |-> Locals(ids[t], rs[t])] :
                     ids \in {f \in [Tasks -> RequestIds] : f[1] = "a"},
                     rs \in [Tasks -> ConcurrentResponses]}
    /\ active_tasks = [k \in {_get_key(id) : id \in RequestIds} |-> NoTask]
    /\ plan = Plan(<<>>)
    /\ context = ExecutionContext(0)
    /\ executor = "none"
    /\ pc = "idle"
    /\ next_step = 0
    /\ updates = <<>>
    /\ events = <<>>
    /\ outcome = <<>>
    /\ reference = Plan(<<>>)
    /\ response = NoResponse
    /\ service = NoService
    /\ task_result = TaskResult("none")
    /\ store = NoTask
    /\ registry = <<>>
    /\ calls = <<>>

ConcurrentNext ==
    \E t \in Tasks :
        \/ concurrent_execute_task_start(t)
        \/ concurrent_execute_task_plan(t)
        \/ concurrent_execute_step_end(t)

ConcurrentSpec == ConcurrentInit /\ [][ConcurrentNext]_vars

----------------------------------------------------------------------------
(* tools/base.py: register_tool and unregister_tool called on a             *)
(* ToolRegistry().  _tools is a dict: a sequence of name / tool pairs in     *)
(* insertion order                                                           *)

\* most calls made on the registry
MaxCalls == 3

\* the names tools are registered under, and a name no tool has
ToolNames == {"calculator", "wikipedia"}
NoSuchTool == "nosuch"

\* the tool objects: two of each name
ToolObjects == {[name |-> n, object |-> k] : n \in ToolNames, k \in {1, 2}}

\* ToolRegistry.__contains__
__contains__(tools, tool_name) ==
    \E k \in DOMAIN tools : tools[k].name = tool_name

\* ToolRegistry.__len__
__len__(tools) == Len(tools)

\* register_tool that adds the tool without looking for its name
register_tool_appends(tools, tool) ==
    Append(tools, [name |-> tool.name, tool |-> tool])

\* ToolRegistry.register_tool: self._tools[tool.name] = tool
register_tool(tools, tool) ==
    IF \E k \in DOMAIN tools : tools[k].name = tool.name
    THEN [k \in DOMAIN tools |->
            IF tools[k].name = tool.name
            THEN [name |-> tool.name, tool |-> tool] ELSE tools[k]]
    ELSE Append(tools, [name |-> tool.name, tool |-> tool])

\* ToolRegistry.unregister_tool: the _tools it leaves and the bool it returns
unregister_tool(tools, tool_name) ==
    IF __contains__(tools, tool_name)
    THEN [tools |-> SelectSeq(tools, LAMBDA e : e.name # tool_name),
          returned |-> TRUE]
    ELSE [tools |-> tools, returned |-> FALSE]

\* a call made: the operation, its argument (a name or a text) and what it
\* returned
Call(op, name, returned) == [op |-> op, name |-> name, returned |-> returned]

\* registry.register_tool(tool) is called
call_register_tool ==
    /\ executor = "registry" /\ Len(calls) < MaxCalls
    /\ \E tool \in ToolObjects :
        /\ registry' = register_tool(registry, tool)
        /\ calls' = Append(calls, Call("register_tool", tool.name, None))
    /\ UNCHANGED <<plan, context, settings, executor, pc, next_step, updates,
                   events, outcome, reference, tasks, active_tasks>>
    /\ UNCHANGED orchestration

\* registry.unregister_tool(tool_name) is called
call_unregister_tool ==
    /\ executor = "registry" /\ Len(calls) < MaxCalls
    /\ \E tool_name \in ToolNames \cup {NoSuchTool} :
        LET r == unregister_tool(registry, tool_name)
        IN  /\ registry' = r.tools
            /\ calls' = Append(calls, Call("unregister_tool", tool_name, r.returned))
    /\ UNCHANGED <<plan, context, settings, executor, pc, next_step, updates,
                   events, outcome, reference, tasks, active_tasks>>
    /\ UNCHANGED orchestration

\* registry = ToolRegistry()
RegistryInit ==
    /\ registry = <<>>
    /\ calls = <<>>
    /\ executor = "registry"
    /\ settings \in [max_iterations : {1}]
    /\ plan = Plan(<<>>)
    /\ context = ExecutionContext(0)
    /\ pc = "idle"
    /\ next_step = 0
    /\ updates = <<>>
    /\ events = <<>>
    /\ outcome = <<>>
    /\ reference = Plan(<<>>)
    /\ response = NoResponse
    /\ service = NoService
    /\ task_result = TaskResult("none")
    /\ store = NoTask
    /\ tasks = <<>>
    /\ active_tasks = <<>>

RegistryNext == call_register_tool \/ call_unregister_tool

RegistrySpec == RegistryInit /\ [][RegistryNext]_vars

----------------------------------------------------------------------------
(* planner.py: validate_plan called on a plan *)

\* what a step of a plan handed to validate_plan is: as in Kinds, or a TOOL
\* step without a tool name
ValidateKinds ==
    Kinds \cup {[step_type |-> "tool", tool_name |-> NoName, tool_input |-> Str(<<"q">>),
                 variable_name |-> "evidence"]}

\* the plans handed to validate_plan: none to MaxSteps + 1 steps
ValidatePlans ==
    UNION {
        {Plan([i \in 1..n |-> PlanStep(i, kinds[i], i, {})]) :
            kinds \in [1..n -> ValidateKinds]}
        : n \in 0..(MaxSteps + 1)}

\* planner.validate_plan(plan) is called and returns
call_validate_plan ==
    /\ executor = "validate_plan" /\ calls = <<>>
    /\ calls' = <<Call("validate_plan", "plan", validate_plan(plan))>>
    /\ UNCHANGED <<plan, context, settings, executor, pc, next_step, updates,
                   events, outcome, reference, tasks, active_tasks, registry>>
    /\ UNCHANGED orchestration

ValidateInit ==
    /\ plan \in ValidatePlans
    /\ calls = <<>>
    /\ executor = "validate_plan"
    /\ settings \in [max_iterations : {1}]
    /\ context = ExecutionContext(0)
    /\ pc = "idle"
    /\ next_step = 0
    /\ updates = <<>>
    /\ events = <<>>
    /\ outcome = <<>>
    /\ reference = Plan(<<>>)
    /\ response = NoResponse
    /\ service = NoService
    /\ task_result = TaskResult("none")
    /\ store = NoTask
    /\ tasks = <<>>
    /\ active_tasks = <<>>
    /\ registry = <<>>

ValidateNext == call_validate_plan

ValidateSpec == ValidateInit /\ [][ValidateNext]_vars

----------------------------------------------------------------------------
(* plan.py: substitute_variables called on a text and again on the text it  *)
(* returned.  A text is a sequence of characters here                        *)

\* most characters in a text
MaxText == 5

\* the characters of a text: the mark of a placeholder and two letters
Characters == {"#", "a", "b"}

\* the names variables are bound under
VariableNames == {"a", "b"}

\* the values bound: a word, the name of a variable, and a placeholder
Values == {Str(<<"x">>), Str(<<"b">>), Str(<<"#", "b", "#">>)}

\* the dicts of bound variables, in every insertion order
Variables ==
    {<<>>}
    \cup {<<[name |-> n, value |-> v]>> : n \in VariableNames, v \in Values}
    \cup UNION {{<<[name |-> n, value |-> v], [name |-> m, value |-> w]>> :
                     m \in VariableNames \ {n}, v \in Values, w \in Values} :
                  n \in VariableNames}

Texts == UNION {[1..n -> Characters] : n \in 0..MaxText}

\* f"#{var_name}#"
placeholder(var_name) == <<"#", var_name, "#">>

\* str.replace(old, new): the occurrences of old, found from left to right
\* without overlap, are replaced
replace(s, old, new) ==
    LET RECURSIVE rest(_)
        rest(t) ==
            IF Len(t) < Len(old) THEN t
            ELSE IF SubSeq(t, 1, Len(old)) = old
                 THEN new \o rest(SubSeq(t, Len(old) + 1, Len(t)))
                 ELSE <<Head(t)>> \o rest(Tail(t))
    IN  rest(s)

\* ExecutionContext.substitute_variables: one replace per variable, in the
\* order of the dict, each on the result of the one before
substitute_variables(variables, text) ==
    LET RECURSIVE loop(_, _)
        loop(k, result) ==
            IF k > Len(variables) THEN result
            ELSE loop(k + 1,
                      IF find(result, placeholder(variables[k].name)) # 0
                      THEN replace(result, placeholder(variables[k].name),
                                   str(variables[k].value).s)
                      ELSE result)
    IN  loop(1, text)

\* context.substitute_variables(text) is called, first on a text and then on
\* the text the first call returned
call_substitute_variables ==
    /\ executor = "substitute_variables" /\ Len(calls) < 2
    /\ \E text \in Texts :
        /\ calls # <<>> => text = calls[1].returned
        /\ calls' = Append(calls, Call("substitute_variables", text,
                                       substitute_variables(context.variables, text)))
    /\ UNCHANGED <<plan, context, settings, executor, pc, next_step, updates,
                   events, outcome, reference, tasks, active_tasks, registry>>
    /\ UNCHANGED orchestration

SubstituteInit ==
    /\ context \in {[ExecutionContext(0) EXCEPT !.variables = v] : v \in Variables}
    /\ calls = <<>>
    /\ executor = "substitute_variables"
    /\ settings \in [max_iterations : {1}]
    /\ plan = Plan(<<>>)
    /\ pc = "idle"
    /\ next_step = 0
    /\ updates = <<>>
    /\ events = <<>>
    /\ outcome = <<>>
    /\ reference = Plan(<<>>)
    /\ response = NoResponse
    /\ service = NoService
    /\ task_result = TaskResult("none")
    /\ store = NoTask
    /\ tasks = <<>>
    /\ active_tasks = <<>>
    /\ registry = <<>>

SubstituteNext == call_substitute_variables

SubstituteSpec == SubstituteInit /\ [][SubstituteNext]_vars

----------------------------------------------------------------------------
(* The fallback plan, executed by execute_plan and by execute_plan_streaming *)

\* _execute_solve_step, line 321: the text put after "Solve: " in the prompt
solve_input(step, variables) == substitute_variables(variables, step.tool_input.s)

\* the completion service failed and the planner returned the fallback plan;
\* max_iterations allows up to all of its steps
FallbackInit ==
    /\ response = [failed |-> TRUE, text |-> <<>>]
    /\ plan = create_plan(response)
    /\ settings \in [max_iterations : 1..Len(_create_fallback_plan)]
    /\ context = ExecutionContext(0)
    /\ executor = "execute_plan"
    /\ pc = "created"
    /\ next_step = 0
    /\ updates = <<>>
    /\ events = <<>>
    /\ outcome = [i \in DOMAIN plan.steps |-> "unset"]
    /\ reference = plan
    /\ service = NoService
    /\ task_result = TaskResult("none")
    /\ store = NoTask
    /\ tasks = <<>>
    /\ active_tasks = <<>>
    /\ registry = <<>>
    /\ calls = <<>>

FallbackSpec == FallbackInit /\ [][Next]_vars

----------------------------------------------------------------------------
(* Workers on the shared store.  One worker process runs execute_task for    *)
(* request "a"; others run cancel_task for it.  Every Redis command (GET,    *)
(* SETEX, DEL) is one step: commands of different workers interleave         *)

\* most worker processes that call cancel_task
MaxWorkers == 2

\* the workers that call cancel_task
Cancellers == 1..MaxWorkers

\* the locals of a call: where it is, the task_data it read, what it returned
Worker(at) == [pc |-> at, task_data |-> NoTask, returned |-> "none"]

\* RedisService.get_active_task: a copy of the entry, NoTask for None
get_active_task(entries, request_id) == entries[_get_key(request_id)]

\* redis_client.setex(key, ttl_seconds, json.dumps(task_data.to_dict()))
setex(entries, request_id, task_data) ==
    [entries EXCEPT ![_get_key(request_id)] =
        store_active_task(task_data.result, task_data.plan)]

\* redis_client.delete(key)
delete(entries, request_id) ==
    [entries EXCEPT ![_get_key(request_id)] = remove_active_task(@)]

\* execute_task, lines 30-41: the entry is stored and the planner is awaited
worker_execute_task_start ==
    /\ tasks.execute_task.pc = "called"
    /\ active_tasks' = setex(active_tasks, "a",
                             store_active_task(TaskResult("planning"), None))
    /\ tasks' = [tasks EXCEPT !.execute_task.pc = "planning"]
    /\ UNCHANGED <<plan, context, settings, executor, pc, next_step, updates,
                   events, outcome, reference, registry, calls>>
    /\ UNCHANGED orchestration

\* execute_task, lines 44-47, and update_task_plan, line 205: the planner has
\* returned the plan, and update_task_plan reads the entry; it returns False
\* when there is none
worker_update_task_plan_get ==
    /\ tasks.execute_task.pc = "planning"
    /\ plan' = create_plan(response)
    /\ LET task_data == get_active_task(active_tasks, "a")
       IN  tasks' = [tasks EXCEPT
                        !.execute_task.task_data = task_data,
                        !.execute_task.pc =
                            IF task_data.tracked THEN "update_task_plan" ELSE "executing"]
    /\ UNCHANGED <<context, settings, executor, pc, next_step, updates,
                   events, outcome, reference, registry, calls, active_tasks>>
    /\ UNCHANGED orchestration

\* update_task_plan, lines 207-208: the plan is put into the copy and the
\* copy is stored; execute_task goes on to execute the plan
worker_update_task_plan_setex ==
    /\ tasks.execute_task.pc = "update_task_plan"
    /\ active_tasks' = setex(active_tasks, "a",
                             [tasks.execute_task.task_data EXCEPT !.plan = plan])
    /\ tasks' = [tasks EXCEPT !.execute_task.pc = "executing"]
    /\ UNCHANGED <<plan, context, settings, executor, pc, next_step, updates,
                   events, outcome, reference, registry, calls>>
    /\ UNCHANGED orchestration

\* execute_task, lines 52-64: the plan has been executed; the entry is
\* removed and execute_task returns
worker_remove_active_task ==
    /\ tasks.execute_task.pc = "executing"
    /\ active_tasks' = delete(active_tasks, "a")
    /\ tasks' = [tasks EXCEPT !.execute_task.pc = "returned"]
    /\ UNCHANGED <<plan, context, settings, executor, pc, next_step, updates,
                   events, outcome, reference, registry, calls>>
    /\ UNCHANGED orchestration

\* cancel_task, lines 184-185: the entry is read; False is returned when
\* there is none
worker_cancel_task_get(w) ==
    /\ tasks.cancel_task[w].pc = "called"
    /\ LET task_data == get_active_task(active_tasks, "a")
       IN  tasks' = [tasks EXCEPT
                        !.cancel_task[w] =
                            IF task_data.tracked
                            THEN [@ EXCEPT !.task_data = task_data, !.pc = "read"]
                            ELSE [@ EXCEPT !.returned = "False", !.pc = "returned"]]
    /\ UNCHANGED <<plan, context, settings, executor, pc, next_step, updates,
                   events, outcome, reference, registry, calls, active_tasks>>
    /\ UNCHANGED orchestration

\* cancel_task, lines 186-197: the copy is marked CANCELLED and stored, and
\* True is returned
worker_cancel_task_setex(w) ==
    /\ tasks.cancel_task[w].pc = "read"
    /\ active_tasks' = setex(active_tasks, "a",
                             [tasks.cancel_task[w].task_data EXCEPT
                                 !.result.status = "cancelled",
                                 !.result.completed_at = "cancelled"])
    /\ tasks' = [tasks EXCEPT !.cancel_task[w].returned = "True",
                              !.cancel_task[w].pc = "returned"]
    /\ UNCHANGED <<plan, context, settings, executor, pc, next_step, updates,
                   events, outcome, reference, registry, calls>>
    /\ UNCHANGED orchestration

WorkersInit ==
    /\ response \in ConcurrentResponses
    /\ tasks = [execute_task |-> Worker("called"),
                cancel_task |-> [w \in Cancellers |-> Worker("called")]]
    /\ active_tasks = [k \in {_get_key("a")} |-> NoTask]
    /\ settings \in [max_iterations : {1}]
    /\ plan = Plan(<<>>)
    /\ context = ExecutionContext(0)
    /\ executor = "none"
    /\ pc = "idle"
    /\ next_step = 0
    /\ updates = <<>>
    /\ events = <<>>
    /\ outcome = <<>>
    /\ reference = Plan(<<>>)
    /\ service = NoService
    /\ task_result = TaskResult("none")
    /\ store = NoTask
    /\ registry = <<>>
    /\ calls = <<>>

WorkersNext ==
    \/ worker_execute_task_start
    \/ worker_update_task_plan_get
    \/ worker_update_task_plan_setex
    \/ worker_remove_active_task
    \/ \E w \in Cancellers :
          \/ worker_cancel_task_get(w)
          \/ worker_cancel_task_setex(w)

WorkersSpec == WorkersInit /\ [][WorkersNext]_vars

----------------------------------------------------------------------------
(* Claims *)

Steps == DOMAIN plan.steps
Status(i) == plan.steps[i].status
Finished == pc = "done"

\* step i goes from PENDING to RUNNING in this step of the executor
Starts(i) == Status(i) = "pending" /\ plan'.steps[i].status = "running"

\* step i's dependencies all name steps of the plan that are COMPLETED
Satisfied(i) ==
    \A d \in plan.steps[i].dependencies :
        \E k \in Steps : plan.steps[k].step_id = d /\ Status(k) = "completed"

\* execute_plan stays within its iteration budget, lets no exception out and
\* returns with the plan COMPLETED or FAILED
C1_Bounded ==
    executor = "execute_plan" =>
        /\ context.iteration <= settings.max_iterations
        /\ Cardinality({i \in Steps : Status(i) # "pending"}) <= context.iteration
        /\ pc # "raised"
        /\ Finished => plan.status \in {"completed", "failed"}

\* C1: execute_plan never counts more than max_iterations iterations nor
\* starts more than that many steps, and it ends, with the plan COMPLETED or
\* FAILED, whatever the dependencies and the outcomes of the calls are.
C1_Terminates ==
    /\ []C1_Bounded
    /\ <>(executor = "execute_plan" /\ Finished)
C1_Witness ==
    /\ executor = "execute_plan" /\ Finished
    /\ context.iteration = settings.max_iterations
    /\ \E i \in Steps : Status(i) = "pending" /\ ~Satisfied(i)
    /\ \E i \in Steps : Status(i) = "completed"

\* C2: while an executor runs, a step's status changes only PENDING->RUNNING,
\* RUNNING->COMPLETED or RUNNING->FAILED; so COMPLETED and FAILED are never
\* left and SKIPPED is never entered.
C2_Transitions ==
    [][executor' = executor =>
        \A i \in Steps :
            \/ plan'.steps[i].status = Status(i)
            \/ <<Status(i), plan'.steps[i].status>> \in
                   {<<"pending", "running">>, <<"running", "completed">>,
                    <<"running", "failed">>}]_vars
C2_Witness ==
    /\ executor = "execute_plan_streaming"
    /\ \E i, j \in Steps : Status(i) = "completed" /\ Status(j) = "failed"
    /\ \E i, j \in Steps :
          reference.steps[i].status = "completed" /\ reference.steps[j].status = "failed"

\* C3: get_next_step returns the first step of the list that is PENDING with
\* every dependency naming a COMPLETED step of the plan (None when there is
\* none), and a step that is RUNNING has all its dependencies COMPLETED.
C3_NextStep ==
    /\ LET n == get_next_step(plan)
       IN  IF n = 0
           THEN \A i \in Steps : ~(Status(i) = "pending" /\ Satisfied(i))
           ELSE /\ n \in Steps
                /\ Status(n) = "pending" /\ Satisfied(n)
                /\ \A j \in 1..(n - 1) : ~(Status(j) = "pending" /\ Satisfied(j))
    /\ \A i \in Steps : Status(i) = "running" => Satisfied(i)
C3_Witness ==
    \E i \in Steps :
        /\ Status(i) = "running"
        /\ \E d \in plan.steps[i].dependencies : d > i

C5_CompletedIff ==
    Finished =>
        (plan.status = "completed" <=> \A i \in Steps : Status(i) = "completed")
C5_Witness ==
    /\ Finished /\ executor = "execute_plan_streaming"
    /\ plan.status = "completed" /\ Len(plan.steps) = MaxSteps
    /\ reference.status = "completed"

\* C6 as claimed: when an executor has finished, the plan is FAILED exactly
\* when some step is FAILED.
C6_FailedIffStepFailed ==
    Finished => (plan.status = "failed" <=> \E i \in Steps : Status(i) = "failed")

\* C6, amended: when an executor has finished, the plan is FAILED exactly
\* when some step is FAILED or some step is still PENDING (its dependencies
\* never completed, or the iteration budget ran out before it was started).
C6_FailedIff ==
    Finished =>
        (plan.status = "failed" <=>
            \E i \in Steps : Status(i) = "failed" \/ Status(i) = "pending")
C6_Witness ==
    /\ Finished /\ plan.status = "failed"
    /\ \A i \in Steps : Status(i) # "failed"
    /\ \E i \in Steps : Status(i) = "pending"

\* C7: in every state of an execution, final_answer is set only if the plan
\* is COMPLETED.
C7_AnswerOnlyCompleted ==
    plan.final_answer # None => plan.status = "completed"
C7_Witness ==
    /\ plan.final_answer # None /\ executor = "execute_plan_streaming"
    /\ reference.final_answer # None

\* the result of the last SOLVE step in declaration order, None without one
LastSolveResult ==
    LET solve_steps == {i \in Steps : plan.steps[i].step_type = "solve"}
    IN  IF solve_steps = {} THEN None
        ELSE plan.steps[CHOOSE i \in solve_steps : \A j \in solve_steps : j <= i].result

\* C8: when a plan ends COMPLETED, final_answer is the result of its last
\* SOLVE step, and stays unset when it has no SOLVE step.
C8_AnswerIsLastSolve ==
    Finished /\ plan.status = "completed" => plan.final_answer = LastSolveResult

\* step i is a TOOL step whose tool is not registered, returns an error or raises
ToolFails(i) ==
    /\ plan.steps[i].step_type = "tool"
    /\ \/ plan.steps[i].tool_name \notin tool_registry
       \/ outcome[i] \in {"error", "raise"}

\* C9: in execute_plan a TOOL step whose tool is unknown, returns an error or
\* raises ends FAILED with an error message; no exception leaves
\* execute_plan, the plan ends FAILED and final_answer stays unset.
C9_ToolFailure ==
    executor = "execute_plan" =>
        /\ pc # "raised"
        /\ \A i \in Steps :
              ToolFails(i) /\ Status(i) \notin {"pending", "running"} =>
                  /\ Status(i) = "failed"
                  /\ plan.steps[i].error # None /\ plan.steps[i].error.s # <<>>
                  /\ plan.steps[i].result = None
                  /\ Finished => plan.status = "failed" /\ plan.final_answer = None
C9_Witness ==
    /\ executor = "execute_plan" /\ Finished
    /\ \E i \in Steps :
          /\ ToolFails(i) /\ plan.steps[i].tool_name \notin tool_registry
          /\ Status(i) = "failed"
    /\ plan.status = "failed"

\* C10: when execute_plan_streaming has finished, the plan is as execute_plan
\* left it: the same plan status and final_answer, and the same status, result
\* and error of every step.
C10_SameAsExecutePlan ==
    executor = "execute_plan_streaming" /\ Finished =>
        /\ plan.status = reference.status
        /\ plan.final_answer = reference.final_answer
        /\ \A i \in Steps :
              /\ Status(i) = reference.steps[i].status
              /\ plan.steps[i].result = reference.steps[i].result
              /\ plan.steps[i].error = reference.steps[i].error

\* create_plan has returned its plan
Planned == service.mode = "create_plan" /\ service.pc = "returned"

\* C11: create_plan returns exactly the fallback plan (TOOL search bound to
\* search_result, TOOL wikipedia bound to wiki_info, SOLVE bound to answer)
\* whenever the completion service fails or no line of its text parses into
\* a step.
C11_FallbackPlan ==
    Planned /\ (response.failed
                \/ \A k \in DOMAIN response.text :
                      _parse_plan_line(response.text[k], k) = <<>>)
        => plan.steps = _create_fallback_plan

\* C12: every plan create_plan returns has at least one SOLVE step.
C12_HasSolveStep ==
    Planned => \E i \in Steps : plan.steps[i].step_type = "solve"

\* the orchestrator has the plan it was given by the planner
HasPlan == service.mode \in {"execute_task", "execute_task_streaming"} /\ task_result.plan_id

\* C13: a plan that names a tool absent from the registry or has no SOLVE
\* step is never executed: every step of it stays PENDING.
C13_InvalidPlanNotExecuted ==
    HasPlan /\ ~validate_plan(plan) => \A i \in Steps : Status(i) = "pending"

\* no PENDING step can be started: each has a dependency that is not COMPLETED
Blocked ==
    /\ \E i \in Steps : Status(i) = "pending"
    /\ \A i \in Steps : Status(i) = "pending" => ~Satisfied(i)

\* C14 as claimed: a plan that ends FAILED has a FAILED TOOL step, or its
\* loop has used up the max_iterations budget.
C14_FailedCauses ==
    Finished /\ plan.status = "failed" =>
        \/ \E i \in Steps : plan.steps[i].step_type = "tool" /\ Status(i) = "failed"
        \/ context.iteration >= context.max_iterations

\* C14, amended: a plan that ends FAILED has a FAILED TOOL step, or its loop
\* has used up the max_iterations budget, or the loop stopped because no
\* PENDING step could be started (each waits for a dependency that is
\* missing or not COMPLETED).
C14_FailedCausesOrBlocked ==
    Finished /\ plan.status = "failed" =>
        \/ \E i \in Steps : plan.steps[i].step_type = "tool" /\ Status(i) = "failed"
        \/ context.iteration >= context.max_iterations
        \/ Blocked
C14_Witness ==
    /\ Finished /\ plan.status = "failed" /\ Blocked
    /\ context.iteration < context.max_iterations
    /\ \A i \in Steps : Status(i) # "failed"
    /\ executor = "execute_plan_streaming" /\ reference.status = "failed"

\* a SOLVE step is never FAILED and holds no error; once it is recorded as
\* COMPLETED its variable is bound to its result and the plan is still RUNNING
C15_SolveNeverFailed ==
    \A i \in Steps : plan.steps[i].step_type = "solve" =>
        /\ Status(i) # "failed" /\ plan.steps[i].error = None
        /\ pc = "check" /\ next_step = i =>
              /\ Status(i) = "completed"
              /\ plan.status = "running"
              /\ \E k \in DOMAIN context.variables :
                    /\ context.variables[k].name = plan.steps[i].variable_name
                    /\ context.variables[k].value = plan.steps[i].result

\* the answer of a SOLVE step whose completion-service call fails is built
\* from the variables bound at that moment
C15_FallbackAnswer ==
    (/\ pc = "await" /\ executor' = executor
     /\ plan.steps[next_step].step_type = "solve"
     /\ outcome'[next_step] = "llm_error")
        => plan'.steps[next_step].result =
              Str(<<"Based on the available information: ">>
                  \o JoinVariables(context.variables))

\* C15: a SOLVE step never ends FAILED; when the completion service fails it
\* ends COMPLETED with the answer built from the current name: value pairs,
\* its variable is bound to that answer, and the plan is not marked FAILED.
C15_SolveSelfHeals ==
    /\ []C15_SolveNeverFailed
    /\ [][C15_FallbackAnswer]_vars
C15_Witness ==
    /\ Finished /\ plan.status = "completed"
    /\ \E i \in Steps :
          /\ plan.steps[i].step_type = "solve" /\ outcome[i] = "llm_error"
          /\ Len(plan.steps[i].result.s) > 1
          /\ plan.final_answer = plan.steps[i].result

\* the task statuses that are terminal
Terminal == {"completed", "failed", "cancelled"}

\* C16: the task result execute_task returns, and the outcome
\* execute_task_streaming reports last (task_completed with a status, or
\* task_failed), carries COMPLETED, FAILED or CANCELLED, never PLANNING or
\* EXECUTING.
C16_TerminalStatus ==
    /\ service.pc = "returned" => task_result.status \in Terminal
    /\ service.final.type = "task_completed" => service.final.status \in Terminal
    /\ service.final.type = "task_failed" => task_result.status = "failed"
    /\ service.mode = "execute_task_streaming" /\ service.pc = "returned" =>
          service.final.type \in {"task_completed", "task_failed"}
C16_Witness ==
    /\ service.mode = "execute_task_streaming" /\ service.pc = "returned"
    /\ service.final.type = "task_completed" /\ service.final.status = "failed"
    /\ \E i \in Steps : Status(i) = "completed"

\* C17: a task result whose status is FAILED holds an error message.
C17_FailedHasError ==
    service.pc = "returned" /\ task_result.status = "failed" =>
        task_result.error # None /\ task_result.error.s # <<>>

\* cancel_task has marked the task CANCELLED (it returned True)
Cancelled == \E k \in DOMAIN service.cancels : service.cancels[k]

\* C18: once cancel_task has marked the tracked task CANCELLED while its
\* plan is executing, the executor starts no further step of the plan: no
\* step is started after the first one.
C18_NoStepAfterCancel ==
    [][(/\ store.tracked /\ store.result.status = "cancelled"
        /\ store.result.completed_at = "executing"
        /\ \E j \in Steps : Status(j) # "pending")
          => \A i \in Steps : ~Starts(i)]_vars

\* C19: once cancel_task has marked the task CANCELLED, the tracked status
\* stays CANCELLED and the result the execution reports carries CANCELLED.
C19_CancelledSticky ==
    Cancelled =>
        /\ store.tracked => store.result.status = "cancelled"
        /\ service.pc = "returned" => task_result.status = "cancelled"
        /\ service.final.type = "task_completed" => service.final.status = "cancelled"

\* C20: a cancel_task call made after the plan has reached COMPLETED changes
\* neither the tracked task nor the task result.
C20_CancelAfterCompleted ==
    [][Len(service'.cancels) > Len(service.cancels) /\ plan.status = "completed"
          => store' = store /\ task_result' = task_result]_vars

\* C21: for a tracked task, a get_task_status call returns the task's current
\* status (EXECUTING once plan execution has begun) and, when a plan exists,
\* counts equal to the numbers of steps of the task's plan that are COMPLETED
\* and FAILED at that moment.
C21_StatusIsCurrent ==
    Suspended /\ get_task_status.found =>
        /\ ~Cancelled => get_task_status.status = task_result.status
        /\ get_task_status.plan # None =>
              /\ get_task_status.plan.total_steps = Len(plan.steps)
              /\ get_task_status.plan.completed_steps =
                    Cardinality({i \in Steps : Status(i) = "completed"})
              /\ get_task_status.plan.failed_steps =
                    Cardinality({i \in Steps : Status(i) = "failed"})

\* the task status a plan status is mapped to
TaskStatusOf(plan_status) == IF plan_status = "completed" THEN "completed" ELSE "failed"

\* the task result goes from PLANNING to EXECUTING with its plan id recorded,
\* or from EXECUTING to the status its executed plan is mapped to
C22_NormalSequence ==
    \/ task_result.status = "none" /\ task_result'.status = "planning"
    \/ /\ task_result.status = "planning" /\ task_result'.status = "executing"
       /\ task_result'.plan_id
    \/ /\ task_result.status = "executing" /\ task_result.plan_id
       /\ task_result'.status = TaskStatusOf(plan.status)

\* C22 as claimed: a task result's status follows PLANNING -> EXECUTING ->
\* {COMPLETED, FAILED}, the plan id is recorded before EXECUTING is entered,
\* and the final status is COMPLETED exactly when the executed plan's status
\* is COMPLETED and FAILED for every other plan status.
C22_StatusSequence ==
    [][task_result'.status # task_result.status => C22_NormalSequence]_vars

\* C22, amended: as claimed, except that an exception raised before the plan
\* is executed (the store cannot be written) takes the task result from
\* PLANNING straight to FAILED, with the error recorded and no plan id.
C22_StatusSequenceOrError ==
    [][task_result'.status # task_result.status =>
          \/ C22_NormalSequence
          \/ /\ task_result.status = "none" /\ task_result'.status = "failed"
             /\ ~task_result'.plan_id /\ task_result'.error # None
             /\ service.redis = "down"]_vars
C22_Witness ==
    /\ service.mode = "execute_task_streaming" /\ service.pc = "returned"
    /\ task_result.plan_id /\ task_result.status = "failed"
    /\ plan.status = "failed" /\ \E i \in Steps : Status(i) = "completed"

\* what task t's execute_task returns when it runs alone, the calls made for
\* its steps doing what they did in this run
Alone(t) ==
    execute_task_alone(Locals(tasks[t].request_id, tasks[t].response),
                       settings.max_iterations, tasks[t].outcome)

\* a task that has returned has the result and the plan it has running alone,
\* and the entry of a task that is still running holds that task's own plan
C23_OwnResult ==
    \A t \in Tasks :
        /\ tasks[t].pc = "returned" =>
              /\ tasks[t].task_result = Alone(t).task_result
              /\ tasks[t].plan = Alone(t).plan
              /\ tasks[t].context = Alone(t).context
        /\ tasks[t].pc = "await" /\ (\A u \in Tasks \ {t} :
                                        tasks[u].request_id # tasks[t].request_id) =>
              /\ active_tasks[_get_key(tasks[t].request_id)].tracked
              /\ active_tasks[_get_key(tasks[t].request_id)].plan =
                    create_plan(tasks[t].response)

\* a step of task t changes no other task's locals and no entry of the store
\* but the one under t's request id
C23_OwnState ==
    \A t \in Tasks : tasks'[t] # tasks[t] =>
        /\ \A u \in Tasks \ {t} : tasks'[u] = tasks[u]
        /\ \A id \in RequestIds \ {tasks[t].request_id} :
              active_tasks'[_get_key(id)] = active_tasks[_get_key(id)]
        /\ \A u \in Tasks \ {t} : tasks[u].request_id # tasks[t].request_id =>
              active_tasks'[<<key_prefix, tasks[u].request_id>>] =
                  active_tasks[<<key_prefix, tasks[u].request_id>>]

LastOperation(name, n) ==
    LET on == {k \in 1..n : calls[k].name = name}
    IN  IF on = {} THEN "none"
        ELSE calls[CHOOSE k \in on : \A j \in on : j <= k].op

\* a name is in the registry iff it was registered last, len counts these
\* names, and every unregister_tool returned whether the name was present
C24_Contents ==
    /\ \A name \in ToolNames \cup {NoSuchTool} :
          __contains__(registry, name) <=>
              LastOperation(name, Len(calls)) = "register_tool"
    /\ __len__(registry) =
          Cardinality({name \in ToolNames :
                          LastOperation(name, Len(calls)) = "register_tool"})
    /\ \A k \in DOMAIN calls : calls[k].op = "unregister_tool" =>
          (calls[k].returned <=>
              LastOperation(calls[k].name, k - 1) = "register_tool")

\* an unregister_tool that returns False leaves the registry as it is, and a
\* register_tool of a name that is present leaves len as it is
C24_Unchanged ==
    Len(calls') > Len(calls) =>
        LET call == calls'[Len(calls')]
        IN  /\ call.op = "unregister_tool" /\ call.returned = FALSE =>
                  registry' = registry
            /\ call.op = "register_tool" /\ __contains__(registry, call.name) =>
                  __len__(registry') = __len__(registry)

\* C24: after any sequence of register_tool and unregister_tool calls a name
\* is in the registry iff the last operation on it was a register,
\* len(registry) is the number of such names (registering a name again
\* overwrites without growing), and unregister_tool returns True iff the name
\* was present and leaves the registry unchanged when it returns False.
C24_RegistryOperations ==
    /\ []C24_Contents
    /\ [][C24_Unchanged]_vars
C24_Witness ==
    /\ Len(calls) = MaxCalls
    /\ calls[1].op = "register_tool" /\ calls[2].op = "register_tool"
    /\ calls[1].name = calls[2].name
    /\ calls[3].op = "unregister_tool" /\ calls[3].name = calls[1].name
    /\ calls[3].returned = TRUE
    /\ registry = <<>>

\* C25: validate_plan returns true if and only if the plan has at least one
\* step, every TOOL step names a tool present in the registry, and at least
\* one step has kind SOLVE; in every other case it returns false, and it
\* never raises.
C25_ValidIff ==
    executor = "validate_plan" /\ calls # <<>> =>
        /\ calls[1].returned \in BOOLEAN
        /\ calls[1].returned <=>
              /\ Len(plan.steps) >= 1
              /\ \A i \in Steps : plan.steps[i].step_type = "tool" =>
                    /\ plan.steps[i].tool_name # NoName
                    /\ plan.steps[i].tool_name \in {"search", "wikipedia", "custom"}
              /\ \E i \in Steps : plan.steps[i].step_type = "solve"
C25_Witness ==
    /\ executor = "validate_plan" /\ calls # <<>>
    /\ calls[1].returned = TRUE
    /\ Len(plan.steps) = MaxSteps + 1
    /\ \E i \in Steps : plan.steps[i].step_type = "tool"

\* the text holds "#", one or more characters that are no "#", and "#"
ContainsPlaceholderPattern(s) ==
    \E i, j \in DOMAIN s :
        /\ i + 1 < j /\ s[i] = "#" /\ s[j] = "#"
        /\ \A k \in (i + 1)..(j - 1) : s[k] # "#"

\* C26: substitute_variables returns its input unchanged when the text holds
\* no placeholder of a bound variable, and applying it twice gives the text
\* that applying it once gives whenever no bound variable's value contains a
\* placeholder pattern.
C26_NoOpAndIdempotent ==
    executor = "substitute_variables" =>
        /\ calls # <<>> /\ (\A k \in DOMAIN context.variables :
                               find(calls[1].name,
                                    <<"#", context.variables[k].name, "#">>) = 0)
              => calls[1].returned = calls[1].name
        /\ Len(calls) = 2 /\ (\A k \in DOMAIN context.variables :
                                 ~ContainsPlaceholderPattern(context.variables[k].value.s))
              => calls[2].returned = calls[1].returned

\* C27: the steps the plan-text parser returns are sorted ascending by
\* declared step number, steps with equal numbers keep the order in which
\* their lines appear in the text, and parsing the same text again yields the
\* same sequence of steps.
C27_SortedStable ==
    Planned /\ ~response.failed =>
        /\ \A i, j \in Steps : i < j =>
              /\ plan.steps[i].step_number <= plan.steps[j].step_number
              /\ plan.steps[i].step_number = plan.steps[j].step_number =>
                    plan.steps[i].step_id < plan.steps[j].step_id
        /\ \A i \in Steps :
              /\ plan.steps[i].step_id \in DOMAIN response.text
              /\ <<plan.steps[i]>> =
                    _parse_plan_line(response.text[plan.steps[i].step_id],
                                     plan.steps[i].step_id)
        /\ Len(plan.steps) =
              Cardinality({k \in DOMAIN response.text :
                              _parse_plan_line(response.text[k], k) # <<>>})
        /\ _parse_plan_text(response.text) = plan.steps
C27_Witness ==
    /\ Planned /\ ~response.failed /\ Len(plan.steps) = MaxLines
    /\ plan.steps[1].step_number = plan.steps[2].step_number
    /\ plan.steps[1].step_type # plan.steps[2].step_type
    /\ plan.steps[1].step_type = "solve"

\* C28: in every state of a plan execution at most one step of the plan is
\* RUNNING, and a step that is RUNNING is the context's current_step.
C28_OneRunning ==
    /\ Cardinality({i \in Steps : Status(i) = "running"}) <= 1
    /\ \A i \in Steps : Status(i) = "running" => context.current_step = i
C28_Witness ==
    /\ executor = "execute_plan_streaming"
    /\ \E i, j \in Steps :
          /\ Status(i) = "running" /\ context.current_step = i
          /\ Status(j) = "completed" /\ j > i

\* once a step is FAILED the executor is checking, finalizing or done, and
\* from the check on the plan is FAILED
C29_Stopped ==
    has_failed_steps(plan) =>
        /\ pc \in {"check", "finalize", "done"}
        /\ pc # "check" => plan.status = "failed"

\* once a step is FAILED no step changes its status and no iteration is counted
C29_NothingStarts ==
    has_failed_steps(plan) /\ executor' = executor =>
        /\ \A j \in Steps : plan'.steps[j].status = Status(j)
        /\ context'.iteration = context.iteration

\* C29: once any step is FAILED, the loop marks the plan FAILED and stops in
\* that same iteration, and no other step ever leaves PENDING afterwards, in
\* execute_plan and in execute_plan_streaming.
C29_StopsOnFailure ==
    /\ []C29_Stopped
    /\ [][C29_NothingStarts]_vars
C29_Witness ==
    /\ Finished /\ executor = "execute_plan_streaming"
    /\ context.iteration < context.max_iterations
    /\ \E i, j \in Steps :
          /\ Status(i) = "failed"
          /\ Status(j) = "pending" /\ Satisfied(j)
          /\ reference.steps[i].status = "failed"
          /\ reference.steps[j].status = "pending"

\* the plan's steps have no dependencies, and no call made for a step failed
AllSucceed ==
    \A i \in Steps :
        /\ plan.steps[i].dependencies = {}
        /\ ~ToolFails(i) /\ outcome[i] # "llm_error"

\* C30: a plan of n steps without dependencies that all succeed ends
\* COMPLETED if and only if n <= max_iterations; when n > max_iterations
\* exactly max_iterations steps end COMPLETED, the other steps stay PENDING
\* and the plan ends FAILED.
C30_IterationBudget ==
    Finished /\ AllSucceed =>
        /\ plan.status = "completed" <=> Len(plan.steps) <= settings.max_iterations
        /\ Len(plan.steps) > settings.max_iterations =>
              /\ plan.status = "failed"
              /\ Cardinality({i \in Steps : Status(i) = "completed"})
                    = settings.max_iterations
              /\ \A i \in Steps : Status(i) \in {"completed", "pending"}
C30_Witness ==
    /\ Finished /\ AllSucceed /\ executor = "execute_plan_streaming"
    /\ Len(plan.steps) > settings.max_iterations
    /\ plan.status = "failed" /\ reference.status = "failed"
    /\ \E i \in Steps : Status(i) = "pending"

\* the names bound in the context's variables
BoundNames == {context.variables[k].name : k \in DOMAIN context.variables}

\* the steps that are COMPLETED and have a non-empty output variable
Binders == {i \in Steps : Status(i) = "completed" /\ plan.steps[i].variable_name # NoName}

\* the variables are the non-empty names of the COMPLETED steps, each bound
\* once, and to the result of a COMPLETED step of that name
C31_Bound ==
    /\ BoundNames = {plan.steps[i].variable_name : i \in Binders}
    /\ \A k, l \in DOMAIN context.variables :
          context.variables[k].name = context.variables[l].name => k = l
    /\ \A k \in DOMAIN context.variables :
          \E i \in Binders :
              /\ plan.steps[i].variable_name = context.variables[k].name
              /\ plan.steps[i].result = context.variables[k].value

\* a step that becomes COMPLETED binds its non-empty name to its result and
\* leaves the other names as they are; nothing else (a step becoming FAILED
\* included) changes the variables of a context
C31_Binding ==
    executor' = executor /\ DOMAIN plan'.steps = DOMAIN plan.steps =>
        LET completing == {i \in Steps : Status(i) # "completed"
                                          /\ plan'.steps[i].status = "completed"}
        IN  IF \E i \in completing : plan.steps[i].variable_name # NoName
            THEN \E i \in completing :
                    /\ completing = {i}
                    /\ \E k \in DOMAIN context'.variables :
                          /\ context'.variables[k].name = plan.steps[i].variable_name
                          /\ context'.variables[k].value = plan'.steps[i].result
                    /\ \A k \in DOMAIN context.variables :
                          context.variables[k].name # plan.steps[i].variable_name =>
                              \E l \in DOMAIN context'.variables :
                                  context'.variables[l] = context.variables[k]
            ELSE context'.variables = context.variables

\* C31: at every point where the scheduler selects the next step (and in
\* every other state of an execution) the context's variables contain exactly
\* the non-empty output-variable names of the COMPLETED steps, each mapped to
\* the result of the most recently completed step with that name; a FAILED
\* step binds nothing.
C31_Variables ==
    /\ []C31_Bound
    /\ [][C31_Binding]_vars
C31_Witness ==
    /\ pc = "check" /\ Len(plan.steps) = 2
    /\ Status(1) = "completed" /\ Status(2) = "completed"
    /\ plan.steps[1].variable_name = plan.steps[2].variable_name
    /\ plan.steps[1].result # plan.steps[2].result
    /\ context.variables = <<[name |-> plan.steps[2].variable_name,
                              value |-> plan.steps[2].result]>>

\* C32: in every state observable during plan execution (every point at which
\* the streaming executor emits an event included) a step's result is present
\* if and only if its status is COMPLETED, and its error is present if and
\* only if its status is FAILED.
C32_ResultIffCompleted ==
    \A i \in Steps :
        /\ plan.steps[i].result # None <=> Status(i) = "completed"
        /\ plan.steps[i].error # None <=> Status(i) = "failed"

\* where a sequence of events stands in the order of a streaming execution:
\* before execution_started ("none"), between steps ("idle"), inside the
\* events of one step ("step"), after execution_completed ("ended"), or out
\* of that order ("bad"); started holds the steps that emitted step_started
Emitted(es) ==
    LET RECURSIVE read(_)
        read(n) ==
            IF n = 0 THEN [phase |-> "none", step |-> 0, started |-> {}]
            ELSE
            LET before == read(n - 1)
                e == es[n]
            IN  IF before.phase = "none" /\ e = Event("execution_started", 0)
                THEN [before EXCEPT !.phase = "idle"]
                ELSE IF /\ before.phase = "idle" /\ e.type = "step_started"
                        /\ e.step \notin before.started
                THEN [phase |-> "step", step |-> e.step,
                      started |-> before.started \cup {e.step}]
                ELSE IF /\ before.phase = "step" /\ e.type = "step_progress"
                        /\ e.step = before.step
                THEN before
                ELSE IF /\ before.phase = "step"
                        /\ e.type \in {"step_completed", "step_failed"}
                        /\ e.step = before.step
                THEN [before EXCEPT !.phase = "idle", !.step = 0]
                ELSE IF before.phase = "idle" /\ e = Event("execution_completed", 0)
                THEN [before EXCEPT !.phase = "ended"]
                ELSE [before EXCEPT !.phase = "bad"]
    IN  read(Len(es))

\* the events emitted so far are in order; execution_completed has been
\* emitted exactly when the executor is done; the step whose events are open
\* is the step being executed; every step that was started emitted
\* step_started, and every step that ended emitted its one closing event
C33_InOrder ==
    executor = "execute_plan_streaming" =>
        LET s == Emitted(events)
        IN  /\ s.phase # "bad"
            /\ s.phase = "none" <=> pc = "created"
            /\ s.phase = "ended" <=> pc = "done"
            /\ s.phase = "step" <=> pc \in {"started", "open", "stream", "await", "solved"}
            /\ s.phase = "step" => s.step = next_step
            /\ \A i \in Steps :
                  /\ Status(i) # "pending" => i \in s.started
                  /\ Status(i) = "completed" <=>
                        \E n \in DOMAIN events : events[n] = Event("step_completed", i)
                  /\ Status(i) = "failed" <=>
                        \E n \in DOMAIN events : events[n] = Event("step_failed", i)

\* a step begins to run right after its step_started, with no event between
C33_StartedThenRun ==
    executor = "execute_plan_streaming" /\ executor' = executor =>
        \A i \in Steps :
            Status(i) # "running" /\ plan'.steps[i].status = "running" =>
                /\ events' = events
                /\ events # <<>> /\ events[Len(events)] = Event("step_started", i)

\* C33: in a streaming execution, execution_started is the first event and
\* execution_completed the last, each emitted exactly once; every started
\* step emits step_started, then zero or more step_progress, then exactly one
\* of step_completed or step_failed, before any event of another step; the
\* order of step_started events equals the order in which steps were executed.
C33_EventOrder ==
    /\ []C33_InOrder
    /\ [][C33_StartedThenRun]_vars
C33_Witness ==
    /\ executor = "execute_plan_streaming" /\ pc = "done"
    /\ Len(plan.steps) = 2
    /\ events[1] = Event("execution_started", 0)
    /\ events[2] = Event("step_started", 2)
    /\ events[3] = Event("step_progress", 2)
    /\ events[4] = Event("step_completed", 2)
    /\ events[5] = Event("step_started", 1)
    /\ events[Len(events) - 1] = Event("step_failed", 1)
    /\ events[Len(events)] = Event("execution_completed", 0)

\* C34: whenever a step_started event is emitted for a step, that step's
\* status is already RUNNING and its started_at is set.
C34_RunningWhenStarted ==
    \A n \in DOMAIN events :
        events[n].type = "step_started" =>
            /\ Status(events[n].step) # "pending"
            /\ plan.steps[events[n].step].started_at

\* C35: in execute_plan_streaming a TOOL step whose tool is not found, or
\* whose tool reports its failure through an "error" update or produces no
\* successful "result" update, ends FAILED with its error recorded and a
\* step_failed event emitted; such a step is never recorded as COMPLETED.
C35_StreamingToolFailure ==
    executor = "execute_plan_streaming" =>
        \A i \in Steps :
            ToolFails(i) /\ Status(i) \notin {"pending", "running"} =>
                /\ Status(i) = "failed"
                /\ plan.steps[i].error # None
                /\ \E n \in DOMAIN events : events[n] = Event("step_failed", i)
                /\ \A n \in DOMAIN events : events[n] # Event("step_completed", i)

\* the text with the placeholders of bound variables that stand in it, read
\* from left to right, replaced by the bound values, and all else kept
SubstitutedOnce(variables, text) ==
    LET RECURSIVE rest(_)
        rest(t) ==
            IF t = <<>> THEN <<>>
            ELSE IF \E k \in DOMAIN variables :
                        startswith(t, placeholder(variables[k].name))
                 THEN LET k == CHOOSE k \in DOMAIN variables :
                                  startswith(t, placeholder(variables[k].name))
                      IN  str(variables[k].value).s \o rest(SubSeq(t, 4, Len(t)))
                 ELSE <<Head(t)>> \o rest(Tail(t))
    IN  rest(text)

\* C36: substitute_variables replaces every placeholder #name# of the
\* original text by the bound value and never substitutes inside text that
\* was inserted as another variable's value, so its result is the same for
\* every iteration order of the bound variables; a placeholder with no bound
\* variable is left unchanged.
C36_OrderIndependent ==
    executor = "substitute_variables" /\ calls # <<>> =>
        LET variables == context.variables
            reversed == [k \in DOMAIN variables |-> variables[Len(variables) + 1 - k]]
        IN  /\ calls[1].returned = SubstitutedOnce(variables, calls[1].name)
            /\ calls[1].returned = substitute_variables(reversed, calls[1].name)

\* the solver is being called for step 3 of the fallback plan, whose two TOOL
\* steps are COMPLETED
SolvingFallback ==
    /\ plan.steps = [i \in DOMAIN plan.steps |->
                        [_create_fallback_plan[i] EXCEPT
                            !.status = plan.steps[i].status,
                            !.result = plan.steps[i].result,
                            !.error = plan.steps[i].error,
                            !.started_at = plan.steps[i].started_at,
                            !.completed_at = plan.steps[i].completed_at]]
    /\ pc = "await" /\ next_step = 3
    /\ Status(1) = "completed" /\ Status(2) = "completed"

\* C37: when the fallback plan is executed and its two TOOL steps have
\* completed, the input given to the solver for step 3 has its references to
\* search_result and wiki_info replaced by the bound results of steps 1 and
\* 2, with no unresolved placeholder for either variable left in it.
C37_FallbackSolveInput ==
    SolvingFallback =>
        LET input == solve_input(plan.steps[3], context.variables)
        IN  /\ find(input, str(plan.steps[1].result).s) # 0
            /\ find(input, str(plan.steps[2].result).s) # 0
            /\ \A name \in {"search_result", "wiki_info"} :
                  /\ find(input, <<"#", name, "#">>) = 0
                  /\ find(input, <<"#", "{", name, "}", "#">>) = 0

\* the call of execute_task has returned, or the run of
\* execute_task_streaming has ended: it returned or its consumer stopped
RunEnded == service.pc \in {"returned", "closed"}

\* C38: every task execution eventually removes its active-task entry from
\* the store: after execute_task returns, and after an execute_task_streaming
\* run ends for any reason (normal completion, failure, or the consumer
\* ceasing to iterate once it has received task_completed or after a
\* disconnect), no entry for that request id remains.
C38_EntryRemoved ==
    /\ <>RunEnded
    /\ [](RunEnded => ~store.tracked)

\* the entry of request "a" in the shared store
Entry == active_tasks[_get_key("a")]

\* C39: the read-modify-write sequences that cancel_task and update_task_plan
\* perform on the same store key do not lose each other's updates when run
\* by different workers against the shared store: after both finish the
\* entry holds both the CANCELLED status and the plan, and a cancel_task
\* racing with remove_active_task never re-creates an entry for a task whose
\* execution has already removed it.
C39_NoLostUpdate ==
    /\ /\ tasks.execute_task.pc = "executing"
       /\ \A w \in Cancellers : tasks.cancel_task[w].returned = "True"
       => /\ Entry.tracked
          /\ Entry.result.status = "cancelled"
          /\ Entry.plan = plan
    /\ tasks.execute_task.pc = "returned" => ~Entry.tracked

====
